---- MODULE Spec2Model ----
(***************************************************************************)
(* A model of the zorse corpus pipeline: the Content Filter                *)
(* (processing/filters.py), the License Classifier                         *)
(* (processing/licenses.py), the two Record Normalizers                    *)
(* (ingestion/bigquery.py, ingestion/stack.py), the Aggregator             *)
(* (scripts/build_dataset.py) and the Publisher (upload.py).               *)
(*                                                                         *)
(* Python strings on which the code does character work (strip, lower,     *)
(* rsplit, endswith, substring tests) are sequences of one-character       *)
(* strings.  Values the code only passes along or compares as a whole      *)
(* (category names, exception names, program counters) are TLA+ strings.   *)
(***************************************************************************)
EXTENDS Integers, Sequences, FiniteSets, TLC

----------------------------------------------------------------------------
(* Python str operations.                                                  *)

\* Python's None where a str is expected; no str equals it.
None == <<"None">>

UpperLetters ==
  <<"A","B","C","D","E","F","G","H","I","J","K","L","M",
    "N","O","P","Q","R","S","T","U","V","W","X","Y","Z">>

LowerLetters ==
  <<"a","b","c","d","e","f","g","h","i","j","k","l","m",
    "n","o","p","q","r","s","t","u","v","w","x","y","z">>

LowerChar(c) ==
  IF \E i \in DOMAIN UpperLetters : UpperLetters[i] = c
    THEN LowerLetters[CHOOSE i \in DOMAIN UpperLetters : UpperLetters[i] = c]
    ELSE c

\* str.lower()
Lower(s) == [i \in 1..Len(s) |-> LowerChar(s[i])]

UpperChar(c) ==
  IF \E i \in DOMAIN LowerLetters : LowerLetters[i] = c
    THEN UpperLetters[CHOOSE i \in DOMAIN LowerLetters : LowerLetters[i] = c]
    ELSE c

\* str.upper()
Upper(s) == [i \in 1..Len(s) |-> UpperChar(s[i])]

IsSpace(c) == c \in {" ", "\t", "\n", "\r"}

RECURSIVE LStrip(_)
\* str.lstrip()
LStrip(s) == IF s # <<>> /\ IsSpace(Head(s)) THEN LStrip(Tail(s)) ELSE s

RECURSIVE RStrip(_)
\* str.rstrip()
RStrip(s) ==
  IF s # <<>> /\ IsSpace(s[Len(s)]) THEN RStrip(SubSeq(s, 1, Len(s) - 1)) ELSE s

\* str.strip()
Strip(s) == RStrip(LStrip(s))

RECURSIVE LStripChar(_, _)
\* str.lstrip(c) for a one-character c
LStripChar(s, c) == IF s # <<>> /\ Head(s) = c THEN LStripChar(Tail(s), c) ELSE s

\* pat in s
Contains(s, pat) ==
  \E i \in 1..(Len(s) - Len(pat) + 1) : SubSeq(s, i, i + Len(pat) - 1) = pat

\* s.startswith(pat)
StartsWith(s, pat) == Len(s) >= Len(pat) /\ SubSeq(s, 1, Len(pat)) = pat

\* s.endswith(pat)
EndsWith(s, pat) ==
  Len(s) >= Len(pat) /\ SubSeq(s, Len(s) - Len(pat) + 1, Len(s)) = pat

----------------------------------------------------------------------------
(* processing/licenses.py                                                  *)

PERMISSIVE_LICENSE_SPDX_IDS ==
  { <<"0","B","S","D">>, <<"A","A","L">>, <<"A","d","a","C","o","r","e","-","d","o","c">>,
    <<"A","d","o","b","e","-","2","0","0","6">>, <<"A","d","o","b","e","-","G","l","y","p","h">>,
    <<"A","D","S","L">>, <<"A","F","L","-","1",".","1">>, <<"A","F","L","-","1",".","2">>,
    <<"A","F","L","-","2",".","0">>, <<"A","F","L","-","2",".","1">>, <<"A","F","L","-","3",".","0">>,
    <<"A","M","L">>, <<"A","M","P","A","S">>, <<"A","N","T","L","R","-","P","D">>,
    <<"A","p","a","c","h","e","-","1",".","0">>, <<"A","p","a","c","h","e","-","1",".","1">>,
    <<"A","p","a","c","h","e","-","2",".","0">>, <<"A","P","A","F","M","L">>,
    <<"A","r","t","i","s","t","i","c","-","1",".","0">>,
    <<"A","r","t","i","s","t","i","c","-","1",".","0","-","c","l","8">>,
    <<"A","r","t","i","s","t","i","c","-","1",".","0","-","P","e","r","l">>,
    <<"A","r","t","i","s","t","i","c","-","2",".","0">>, <<"B","a","r","r">>,
    <<"B","e","e","r","w","a","r","e">>,
    <<"B","i","t","s","t","r","e","a","m","-","C","h","a","r","t","e","r">>,
    <<"B","i","t","s","t","r","e","a","m","-","V","e","r","a">>, <<"b","l","e","s","s","i","n","g">>,
    <<"B","l","u","e","O","a","k","-","1",".","0",".","0">>, <<"B","o","e","h","m","-","G","C">>,
    <<"B","o","r","c","e","u","x">>, <<"B","S","D","-","1","-","C","l","a","u","s","e">>,
    <<"B","S","D","-","2","-","C","l","a","u","s","e">>,
    <<"B","S","D","-","2","-","C","l","a","u","s","e","-","P","a","t","e","n","t">>,
    <<"B","S","D","-","2","-","C","l","a","u","s","e","-","V","i","e","w","s">>,
    <<"B","S","D","-","3","-","C","l","a","u","s","e">>,
    <<"B","S","D","-","3","-","C","l","a","u","s","e","-","A","t","t","r","i","b","u","t","i","o","n">>,
    <<"B","S","D","-","3","-","C","l","a","u","s","e","-","C","l","e","a","r">>,
    <<"B","S","D","-","3","-","C","l","a","u","s","e","-","L","B","N","L">>,
    <<"B","S","D","-","3","-","C","l","a","u","s","e","-","M","o","d","i","f","i","c","a","t","i","o","n">>,
    <<"B","S","D","-","3","-","C","l","a","u","s","e","-","N","o","-","N","u","c","l","e","a","r","-","L","i","c","e","n","s","e","-","2","0","1","4">>,
    <<"B","S","D","-","3","-","C","l","a","u","s","e","-","N","o","-","N","u","c","l","e","a","r","-","W","a","r","r","a","n","t","y">>,
    <<"B","S","D","-","3","-","C","l","a","u","s","e","-","O","p","e","n","-","M","P","I">>,
    <<"B","S","D","-","4","-","C","l","a","u","s","e">>,
    <<"B","S","D","-","4","-","C","l","a","u","s","e","-","S","h","o","r","t","e","n","e","d">>,
    <<"B","S","D","-","4","-","C","l","a","u","s","e","-","U","C">>,
    <<"B","S","D","-","4",".","3","R","E","N","O">>, <<"B","S","D","-","4",".","3","T","A","H","O","E">>,
    <<"B","S","D","-","A","d","v","e","r","t","i","s","i","n","g","-","A","c","k","n","o","w","l","e","d","g","e","m","e","n","t">>,
    <<"B","S","D","-","A","t","t","r","i","b","u","t","i","o","n","-","H","P","N","D","-","d","i","s","c","l","a","i","m","e","r">>,
    <<"B","S","D","-","S","o","u","r","c","e","-","C","o","d","e">>, <<"B","S","L","-","1",".","0">>,
    <<"b","z","i","p","2","-","1",".","0",".","6">>, <<"C","a","l","d","e","r","a">>,
    <<"C","C","-","B","Y","-","1",".","0">>, <<"C","C","-","B","Y","-","2",".","0">>,
    <<"C","C","-","B","Y","-","2",".","5">>, <<"C","C","-","B","Y","-","2",".","5","-","A","U">>,
    <<"C","C","-","B","Y","-","3",".","0">>, <<"C","C","-","B","Y","-","3",".","0","-","A","T">>,
    <<"C","C","-","B","Y","-","3",".","0","-","D","E">>, <<"C","C","-","B","Y","-","3",".","0","-","N","L">>,
    <<"C","C","-","B","Y","-","3",".","0","-","U","S">>, <<"C","C","-","B","Y","-","4",".","0">>,
    <<"C","C","-","P","D","D","C">>, <<"C","C","0","-","1",".","0">>,
    <<"C","D","L","A","-","P","e","r","m","i","s","s","i","v","e","-","1",".","0">>,
    <<"C","D","L","A","-","P","e","r","m","i","s","s","i","v","e","-","2",".","0">>,
    <<"C","E","C","I","L","L","-","B">>, <<"C","E","R","N","-","O","H","L","-","1",".","1">>,
    <<"C","E","R","N","-","O","H","L","-","1",".","2">>,
    <<"C","E","R","N","-","O","H","L","-","P","-","2",".","0">>, <<"C","F","I","T","S","I","O">>,
    <<"C","l","A","r","t","i","s","t","i","c">>, <<"C","l","i","p","s">>,
    <<"C","M","U","-","M","a","c","h">>, <<"C","N","R","I","-","P","y","t","h","o","n">>,
    <<"C","O","I","L","-","1",".","0">>,
    <<"C","o","m","m","u","n","i","t","y","-","S","p","e","c","-","1",".","0">>,
    <<"C","o","n","d","o","r","-","1",".","1">>, <<"C","r","o","s","s","w","o","r","d">>,
    <<"C","u","b","e">>, <<"c","u","r","l">>, <<"d","i","f","f","m","a","r","k">>, <<"D","O","C">>,
    <<"D","S","D","P">>, <<"d","t","o","a">>, <<"E","C","L","-","1",".","0">>,
    <<"E","C","L","-","2",".","0">>, <<"E","F","L","-","1",".","0">>, <<"E","F","L","-","2",".","0">>,
    <<"e","G","e","n","i","x">>, <<"E","n","t","e","s","s","a">>, <<"E","P","I","C","S">>,
    <<"e","t","a","l","a","b","-","2",".","0">>, <<"E","U","D","a","t","a","g","r","i","d">>,
    <<"F","a","i","r">>, <<"F","r","e","e","B","S","D","-","D","O","C">>, <<"F","S","F","A","P">>,
    <<"F","S","F","U","L">>, <<"F","S","F","U","L","L","R">>, <<"F","S","F","U","L","L","R","W","D">>,
    <<"F","T","L">>, <<"G","D">>, <<"G","i","f","t","w","a","r","e">>, <<"G","l","u","l","x","e">>,
    <<"G","L","W","T","P","L">>, <<"G","r","a","p","h","i","c","s","-","G","e","m","s">>,
    <<"H","a","s","k","e","l","l","R","e","p","o","r","t">>, <<"H","P","-","1","9","8","6">>,
    <<"H","P","N","D">>, <<"H","P","N","D","-","M","a","r","k","u","s","-","K","u","h","n">>,
    <<"H","P","N","D","-","s","e","l","l","-","v","a","r","i","a","n","t">>,
    <<"H","P","N","D","-","s","e","l","l","-","v","a","r","i","a","n","t","-","M","I","T","-","d","i","s","c","l","a","i","m","e","r">>,
    <<"H","T","M","L","T","I","D","Y">>, <<"I","C","U">>, <<"I","J","G">>,
    <<"I","J","G","-","s","h","o","r","t">>, <<"I","m","a","g","e","M","a","g","i","c","k">>,
    <<"i","M","a","t","i","x">>, <<"I","n","f","o","-","Z","I","P">>, <<"I","n","t","e","l">>,
    <<"I","n","t","e","l","-","A","C","P","I">>, <<"I","S","C">>, <<"J","a","m">>,
    <<"J","a","s","P","e","r","-","2",".","0">>, <<"J","P","N","I","C">>, <<"J","S","O","N">>,
    <<"K","a","z","l","i","b">>, <<"L","a","t","e","x","2","e">>,
    <<"L","a","t","e","x","2","e","-","t","r","a","n","s","l","a","t","e","d","-","n","o","t","i","c","e">>,
    <<"L","e","p","t","o","n","i","c","a">>, <<"L","i","b","p","n","g">>,
    <<"l","i","b","p","n","g","-","2",".","0">>, <<"l","i","b","s","e","l","i","n","u","x","-","1",".","0">>,
    <<"l","i","b","t","i","f","f">>, <<"L","i","n","u","x","-","O","p","e","n","I","B">>,
    <<"L","L","V","M","-","e","x","c","e","p","t","i","o","n">>, <<"L","O","O","P">>,
    <<"L","P","L","-","1",".","0","2">>, <<"L","P","P","L","-","1",".","3","c">>,
    <<"L","Z","M","A","-","S","D","K","-","9",".","2","2">>,
    <<"M","a","r","t","i","n","-","B","i","r","g","m","e","i","e","r">>, <<"m","e","t","a","m","a","i","l">>,
    <<"M","i","n","p","a","c","k">>, <<"M","i","r","O","S">>, <<"M","I","T">>, <<"M","I","T","-","0">>,
    <<"M","I","T","-","a","d","v","e","r","t","i","s","i","n","g">>, <<"M","I","T","-","C","M","U">>,
    <<"M","I","T","-","e","n","n","a">>, <<"M","I","T","-","f","e","h">>,
    <<"M","I","T","-","F","e","s","t","i","v","a","l">>,
    <<"M","I","T","-","M","o","d","e","r","n","-","V","a","r","i","a","n","t">>,
    <<"M","I","T","-","o","p","e","n","-","g","r","o","u","p">>, <<"M","I","T","-","W","u">>,
    <<"M","I","T","N","F","A">>, <<"m","p","i","c","h","2">>, <<"m","p","l","u","s">>,
    <<"M","S","-","L","P","L">>, <<"M","S","-","P","L">>, <<"M","T","L","L">>,
    <<"M","u","l","a","n","P","S","L","-","1",".","0">>, <<"M","u","l","a","n","P","S","L","-","2",".","0">>,
    <<"M","u","l","t","i","c","s">>, <<"M","u","p">>, <<"N","A","I","S","T","-","2","0","0","3">>,
    <<"N","A","S","A","-","1",".","3">>, <<"N","C","S","A">>, <<"N","e","t","-","S","N","M","P">>,
    <<"N","e","t","C","D","F">>, <<"N","e","w","s","l","e","t","r">>,
    <<"N","I","C","T","A","-","1",".","0">>, <<"N","I","S","T","-","P","D">>,
    <<"N","I","S","T","-","P","D","-","f","a","l","l","b","a","c","k">>,
    <<"N","I","S","T","-","S","o","f","t","w","a","r","e">>, <<"N","L","O","D","-","1",".","0">>,
    <<"N","L","O","D","-","2",".","0">>, <<"N","L","P","L">>, <<"N","R","L">>, <<"N","T","P">>,
    <<"N","T","P","-","0">>, <<"O","-","U","D","A","-","1",".","0">>,
    <<"O","D","C","-","B","y","-","1",".","0">>, <<"O","F","F","I","S">>, <<"O","F","L","-","1",".","0">>,
    <<"O","F","L","-","1",".","0","-","R","F","N">>, <<"O","G","C","-","1",".","0">>,
    <<"O","G","L","-","C","a","n","a","d","a","-","2",".","0">>, <<"O","G","L","-","U","K","-","1",".","0">>,
    <<"O","G","L","-","U","K","-","2",".","0">>, <<"O","G","L","-","U","K","-","3",".","0">>,
    <<"O","G","T","S","L">>, <<"O","L","D","A","P","-","2",".","0",".","1">>,
    <<"O","L","D","A","P","-","2",".","4">>, <<"O","L","D","A","P","-","2",".","5">>,
    <<"O","L","D","A","P","-","2",".","7">>, <<"O","L","D","A","P","-","2",".","8">>, <<"O","M","L">>,
    <<"O","p","e","n","S","S","L">>, <<"O","P","U","B","L","-","1",".","0">>,
    <<"P","D","D","L","-","1",".","0">>, <<"P","H","P","-","3",".","0">>,
    <<"P","H","P","-","3",".","0","1">>, <<"P","l","e","x","u","s">>,
    <<"P","o","s","t","g","r","e","S","Q","L">>, <<"P","S","F","-","2",".","0">>,
    <<"p","s","u","t","i","l","s">>, <<"P","y","t","h","o","n","-","2",".","0">>, <<"Q","h","u","l","l">>,
    <<"R","S","A","-","M","D">>, <<"R","u","b","y">>, <<"S","A","X","-","P","D">>,
    <<"S","a","x","p","a","t","h">>, <<"S","C","E","A">>,
    <<"S","c","h","e","m","e","R","e","p","o","r","t">>, <<"S","e","n","d","m","a","i","l">>,
    <<"S","G","I","-","B","-","1",".","1">>, <<"S","G","I","-","B","-","2",".","0">>,
    <<"S","H","L","-","0",".","5">>, <<"S","H","L","-","0",".","5","1">>, <<"S","H","L","-","2",".","0">>,
    <<"S","H","L","-","2",".","1">>, <<"S","M","L","N","J">>, <<"s","n","p","r","i","n","t","f">>,
    <<"S","p","e","n","c","e","r","-","8","6">>, <<"S","p","e","n","c","e","r","-","9","4">>,
    <<"S","p","e","n","c","e","r","-","9","9">>, <<"S","S","H","-","O","p","e","n","S","S","H">>,
    <<"S","S","H","-","s","h","o","r","t">>, <<"S","u","n","P","r","o">>,
    <<"S","w","i","f","t","-","e","x","c","e","p","t","i","o","n">>, <<"S","W","L">>, <<"T","C","L">>,
    <<"T","C","P","-","w","r","a","p","p","e","r","s">>, <<"T","e","r","m","R","e","a","d","K","e","y">>,
    <<"T","U","-","B","e","r","l","i","n","-","1",".","0">>,
    <<"T","U","-","B","e","r","l","i","n","-","2",".","0">>, <<"U","C","A","R">>,
    <<"U","n","i","c","o","d","e","-","D","F","S","-","2","0","1","5">>,
    <<"U","n","i","c","o","d","e","-","D","F","S","-","2","0","1","6">>,
    <<"U","n","i","x","C","r","y","p","t">>, <<"U","n","l","i","c","e","n","s","e">>,
    <<"U","P","L","-","1",".","0">>, <<"V","i","m">>, <<"V","S","L","-","1",".","0">>, <<"W","3","C">>,
    <<"W","3","C","-","1","9","9","8","0","7","2","0">>, <<"W","3","C","-","2","0","1","5","0","5","1","3">>,
    <<"w","3","m">>, <<"W","i","d","g","e","t","-","W","o","r","k","s","h","o","p">>,
    <<"W","s","u","i","p","a">>, <<"W","T","F","P","L">>, <<"X","1","1">>,
    <<"X","1","1","-","d","i","s","t","r","i","b","u","t","e","-","m","o","d","i","f","i","c","a","t","i","o","n","s","-","v","a","r","i","a","n","t">>,
    <<"X","e","r","o","x">>, <<"X","f","i","g">>, <<"X","F","r","e","e","8","6","-","1",".","1">>,
    <<"x","l","o","c","k">>, <<"X","n","e","t">>, <<"x","p","p">>, <<"X","S","k","a","t">>, <<"Z","e","d">>,
    <<"Z","e","n","d","-","2",".","0">>, <<"Z","l","i","b">>,
    <<"z","l","i","b","-","a","c","k","n","o","w","l","e","d","g","e","m","e","n","t">>,
    <<"Z","P","L","-","1",".","1">>, <<"Z","P","L","-","2",".","0">>, <<"Z","P","L","-","2",".","1">> }

PERMISSIVE_LICENSE_NAMES ==
  { <<"m","i","t">>, <<"a","p","a","c","h","e","-","2",".","0">>,
    <<"a","p","a","c","h","e"," ","2",".","0">>, <<"a","p","a","c","h","e","2">>, <<"b","s","d">>,
    <<"i","s","c">>, <<"u","n","l","i","c","e","n","s","e">>, <<"w","t","f","p","l">>, <<"z","l","i","b">>,
    <<"p","u","b","l","i","c"," ","d","o","m","a","i","n">>,
    <<"p","u","b","l","i","c","-","d","o","m","a","i","n">>, <<"c","c","0">>,
    <<"c","c","0","-","1",".","0">>, <<"b","s","d","-","2","-","c","l","a","u","s","e">>,
    <<"b","s","d","-","3","-","c","l","a","u","s","e">>, <<"b","s","d","-","4","-","c","l","a","u","s","e">>,
    <<"a","r","t","i","s","t","i","c","-","2",".","0">>, <<"p","y","t","h","o","n","-","2",".","0">>,
    <<"p","o","s","t","g","r","e","s","q","l">>, <<"j","s","o","n">>, <<"c","u","r","l">>,
    <<"o","p","e","n","s","s","l">> }

\* The patterns that gate the last rule of classify_license_type.
CommonPatterns ==
  { <<"m","i","t">>, <<"a","p","a","c","h","e">>, <<"b","s","d">>,
    <<"i","s","c">>, <<"u","n","l","i","c","e","n","s","e">>, <<"w","t","f","p","l">> }

\* The lower-cased forms of the SPDX identifiers, which the loop of lines
\* 100-102 compares license_lower with.
PERMISSIVE_LICENSE_SPDX_IDS_LOWER == { Lower(perm_license) : perm_license \in PERMISSIVE_LICENSE_SPDX_IDS }

\* The cascade without its last rule: the curated lists alone decide.
ClassifyCascade_ListsOnly(license_name) ==
  LET license_clean == Strip(license_name)
      license_lower == Lower(license_clean)
  IN  IF license_clean \in PERMISSIVE_LICENSE_SPDX_IDS THEN "permissive"
      ELSE IF license_lower \in PERMISSIVE_LICENSE_NAMES THEN "permissive"
      ELSE IF license_lower \in PERMISSIVE_LICENSE_SPDX_IDS_LOWER THEN "permissive"
      ELSE "no_license"

\* The cascade with a last rule as wide as the pattern list that gates it.
ClassifyCascade_AnyPattern(license_name) ==
  LET license_clean == Strip(license_name)
      license_lower == Lower(license_clean)
  IN  IF license_clean \in PERMISSIVE_LICENSE_SPDX_IDS THEN "permissive"
      ELSE IF license_lower \in PERMISSIVE_LICENSE_NAMES THEN "permissive"
      ELSE IF license_lower \in PERMISSIVE_LICENSE_SPDX_IDS_LOWER THEN "permissive"
      ELSE IF \E pattern \in CommonPatterns : Contains(license_lower, pattern)
             THEN "permissive"
      ELSE "no_license"

\* Lines 87-115: the cascade of rules on a non-empty identifier.
ClassifyCascade(license_name) ==
  LET license_clean == Strip(license_name)
      license_lower == Lower(license_clean)
  IN  IF license_clean \in PERMISSIVE_LICENSE_SPDX_IDS THEN "permissive"
      ELSE IF license_lower \in PERMISSIVE_LICENSE_NAMES THEN "permissive"
      ELSE IF license_lower \in PERMISSIVE_LICENSE_SPDX_IDS_LOWER THEN "permissive"
      ELSE IF \E pattern \in CommonPatterns : Contains(license_lower, pattern)
             THEN IF \/ Contains(license_lower, <<"m","i","t">>)
                     \/ Contains(license_lower, <<"a","p","a","c","h","e">>)
                    THEN "permissive"
                  ELSE IF StartsWith(license_lower, <<"b","s","d">>)
                    THEN "permissive"
                  ELSE "no_license"
      ELSE "no_license"

\* classify_license_type defaulting a missing license to "permissive".
classify_license_type_MissingPermissive(license_name) ==
  IF license_name = None \/ license_name = <<>> THEN "permissive"
  ELSE ClassifyCascade(license_name)

\* not license_name: None and "" are falsy.
classify_license_type(license_name) ==
  IF license_name = None \/ license_name = <<>> THEN "no_license"
  ELSE ClassifyCascade(license_name)

\* The license identifiers the classifier is exercised on.
L_MIT == <<"M","I","T">>
L_Apache20 == <<"A","p","a","c","h","e","-","2",".","0">>
L_Proprietary == <<"P","r","o","p","r","i","e","t","a","r","y">>
L_mit_padded == <<" ","m","i","t"," ">>
L_MIT_License == <<"M","I","T"," ","L","i","c","e","n","s","e">>
L_Limited == <<"L","i","m","i","t","e","d">>
L_bsd_new == <<"B","S","D","-","n","e","w">>
L_new_bsd == <<"n","e","w","-","b","s","d">>
L_isc_like == <<"i","s","c","-","l","i","k","e">>
L_GPL30 == <<"G","P","L","-","3",".","0">>
L_zlib_upper == <<"Z","L","I","B">>
L_blank == <<" ">>
L_The_Unlicense == <<"T","h","e"," ","U","n","l","i","c","e","n","s","e">>
L_wtfpl_like == <<"w","t","f","p","l","-","l","i","k","e">>
L_bsd_padded == <<" ","B","S","D","-","n","e","w">>

LicenseInputs ==
  { None, <<>>, L_MIT, L_Apache20, L_Proprietary, L_mit_padded, L_MIT_License,
    L_Limited, L_bsd_new, L_new_bsd, L_isc_like, L_GPL30, L_zlib_upper, L_blank,
    L_The_Unlicense, L_wtfpl_like, L_bsd_padded }

----------------------------------------------------------------------------
(* processing/filters.py                                                   *)

MIN_LINES == 10
MAX_LINES == 10000
MAX_TOKENS == 128000

(* A file's text, kept as what the filter reads of it: the number of line  *)
(* terminators in it, whether text follows the last terminator, and the    *)
(* number of tokens the Llama tokenizer cuts it into.  kind "none" is      *)
(* Python's None where a text is expected.                                 *)
Text(n, t, k) == [kind |-> "str", newlines |-> n, tail |-> t, tokens |-> k]

NoneContent == [kind |-> "none", newlines |-> 0, tail |-> FALSE, tokens |-> 0]

\* bool(content): None and "" are falsy
Truthy(content) == content.kind = "str" /\ (content.newlines > 0 \/ content.tail)

\* len(content.splitlines()): a final terminator opens no further line
SplitLinesLen(content) == content.newlines + (IF content.tail THEN 1 ELSE 0)

\* len(tokenizer.tokenize(content))
TokenizeLen(content) == content.tokens

\* What passes_filters returns: None, or an int.
NoneResult == [isNone |-> TRUE, value |-> 0]

IntResult(n) == [isNone |-> FALSE, value |-> n]

\* Whether passes_filters gets as far as _get_tokenizer().
ReachesTokenizer(content) ==
  /\ Truthy(content)
  /\ MIN_LINES <= SplitLinesLen(content)
  /\ SplitLinesLen(content) <= MAX_LINES

\* passes_filters with the line bounds taken as an open interval.
passes_filters_OpenInterval(content) ==
  IF ~Truthy(content) THEN NoneResult
  ELSE IF ~(MIN_LINES < SplitLinesLen(content) /\ SplitLinesLen(content) < MAX_LINES)
    THEN NoneResult
  ELSE IF TokenizeLen(content) > MAX_TOKENS THEN NoneResult
  ELSE IntResult(TokenizeLen(content))

\* passes_filters rejecting a token count equal to MAX_TOKENS.
passes_filters_TokensAtMax(content) ==
  IF ~Truthy(content) THEN NoneResult
  ELSE IF ~(MIN_LINES <= SplitLinesLen(content) /\ SplitLinesLen(content) <= MAX_LINES)
    THEN NoneResult
  ELSE IF TokenizeLen(content) >= MAX_TOKENS THEN NoneResult
  ELSE IntResult(TokenizeLen(content))

passes_filters(content) ==
  IF ~Truthy(content) THEN NoneResult
  ELSE IF ~(MIN_LINES <= SplitLinesLen(content) /\ SplitLinesLen(content) <= MAX_LINES)
    THEN NoneResult
  ELSE IF TokenizeLen(content) > MAX_TOKENS THEN NoneResult
  ELSE IntResult(TokenizeLen(content))

\* _get_tokenizer() not keeping the tokenizer it builds.
get_tokenizer_Uncached(tok) == "None"

\* _get_tokenizer(): the module-level _TOKENIZER after a call that reaches it.
get_tokenizer(tok) == IF tok = "None" THEN "loaded" ELSE tok

\* The texts the filter is exercised on: line and token counts at, just
\* inside and just outside each threshold.
NewlineCounts ==
  {0, 1, MIN_LINES - 2, MIN_LINES - 1, MIN_LINES, MAX_LINES - 1, MAX_LINES, MAX_LINES + 1}

TokenCounts == {0, 1, MAX_TOKENS - 1, MAX_TOKENS, MAX_TOKENS + 1}

FilterContents ==
  {NoneContent} \cup
  { Text(n, t, IF n = 0 /\ ~t THEN 0 ELSE k) :
      n \in NewlineCounts, t \in BOOLEAN, k \in TokenCounts }

----------------------------------------------------------------------------
(* upload.py                                                               *)

\* The paths upload_to_hf is called with, and the file system they name.
P_a_jsonl == <<"a",".","j","s","o","n","l">>
P_b_jsonl == <<"b",".","j","s","o","n","l">>
P_notes_txt == <<"n","o","t","e","s",".","t","x","t">>
P_missing_jsonl == <<"m","i","s","s","i","n","g",".","j","s","o","n","l">>

Paths == {P_a_jsonl, P_b_jsonl, P_notes_txt, P_missing_jsonl}

\* os.path.exists(file_path)
PathExists(file_path) == file_path \in {P_a_jsonl, P_b_jsonl, P_notes_txt}

\* The rows of each file, one per line; a.jsonl and b.jsonl share row "r2".
FileRows(file_path) ==
  IF file_path = P_a_jsonl THEN <<"r1", "r2">>
  ELSE IF file_path = P_b_jsonl THEN <<"r2">>
  ELSE <<>>

\* HF_TOKEN in the environment: unset, empty or set.
HfTokens == {None, <<>>, <<"h","f","_","x">>}

DotJsonl == <<".","j","s","o","n","l">>

RECURSIVE FirstPathError(_)
\* The loop over file_paths: the first check that fails, in path order.
FirstPathError(file_paths) ==
  IF file_paths = <<>> THEN "ok"
  ELSE IF ~PathExists(Head(file_paths)) THEN "FileNotFoundError"
  ELSE IF ~EndsWith(Head(file_paths), DotJsonl) THEN "ValueError"
  ELSE FirstPathError(Tail(file_paths))

\* The preconditions checked with the token test first.
PreconditionError_TokenFirst(file_paths, token) ==
  IF token = None \/ token = <<>> THEN "ValueError" ELSE FirstPathError(file_paths)

\* The preconditions of upload_to_hf: the exception raised, or "ok".
PreconditionError(file_paths, token) ==
  IF FirstPathError(file_paths) # "ok" THEN FirstPathError(file_paths)
  ELSE IF token = None \/ token = <<>> THEN "ValueError"
  ELSE "ok"

\* What load_dataset(repo_id, split="train") can do, given the hub's state:
\* return the stored rows, answer 404 when nothing is stored, fail with
\* another HTTP status, or fail below HTTP.
LoadOutcomes(hasData) ==
  (IF hasData THEN {"rows"} ELSE {"HfHubHTTPError 404"})
    \cup {"HfHubHTTPError 500", "ConnectionError"}

\* except HfHubHTTPError: every HTTP error of the hub, whatever its status.
CaughtByExcept(outcome) ==
  outcome \in {"HfHubHTTPError 404", "HfHubHTTPError 401", "HfHubHTTPError 500"}

RECURSIVE DropSeen(_, _)
\* rows without those that occur in seen or earlier in rows
DropSeen(rows, seen) ==
  IF rows = <<>> THEN <<>>
  ELSE IF Head(rows) \in seen THEN DropSeen(Tail(rows), seen)
  ELSE <<Head(rows)>> \o DropSeen(Tail(rows), seen \cup {Head(rows)})

RECURSIVE ConcatFiles(_)
ConcatFiles(file_paths) ==
  IF file_paths = <<>> THEN <<>>
  ELSE FileRows(Head(file_paths)) \o ConcatFiles(Tail(file_paths))

\* load_dataset("json", ...) dropping the rows it has already read.
LoadJsonFiles_Dedup(file_paths) == DropSeen(ConcatFiles(file_paths), {})

RECURSIVE LoadJsonFiles(_)
\* load_dataset("json", data_files=file_paths): the files' rows, file after
\* file in the order given.
LoadJsonFiles(file_paths) ==
  IF file_paths = <<>> THEN <<>>
  ELSE FileRows(Head(file_paths)) \o LoadJsonFiles(Tail(file_paths))

\* concatenate_datasets in the reverse order.
CombinedDataset_NewFirst(existing_dataset, dataset) ==
  IF existing_dataset.isNone THEN dataset ELSE dataset \o existing_dataset.rows

\* The dataset that upload_to_hf pushes.
CombinedDataset(existing_dataset, dataset) ==
  IF existing_dataset.isNone THEN dataset ELSE existing_dataset.rows \o dataset

\* push_to_hub adding the new rows to whatever the destination holds.
PushedRows_Append(stored, existing_dataset, dataset) == stored \o dataset

\* Lines 48-56: the rows the destination holds after push_to_hub, which
\* replaces what was stored there by the dataset it is given.
PushedRows(stored, existing_dataset, dataset) == CombinedDataset(existing_dataset, dataset)

NoDataset == [isNone |-> TRUE, rows |-> <<>>]

Dataset(rows) == [isNone |-> FALSE, rows |-> rows]

RECURSIVE SeqsUpTo(_, _)
\* The non-empty sequences over S of length at most n.
SeqsUpTo(S, n) ==
  IF n = 0 THEN {}
  ELSE SeqsUpTo(S, n - 1) \cup
       (IF n = 1 THEN {<<x>> : x \in S}
        ELSE {Append(q, x) : q \in {r \in SeqsUpTo(S, n - 1) : Len(r) = n - 1}, x \in S})

IsPrefix(s, t) == Len(s) <= Len(t) /\ SubSeq(t, 1, Len(s)) = s

----------------------------------------------------------------------------
(* ingestion/bigquery.py                                                   *)

\* bigquery.VALID_EXTENSIONS, language by language in the order of the dict.
BQ_LANGUAGES == <<"JCL", "PL/I", "HLASM", "BMS">>

BQ_VALID_EXTENSIONS(language) ==
  IF language = "JCL"
    THEN { <<"j","c","l">>, <<"j","o","b">>, <<"p","r","o","c">>, <<"p","r","c">>,
           <<"c","n","t","l">> }
  ELSE IF language = "PL/I"
    THEN { <<"p","l","i">>, <<"p","l","1">>, <<"p","l","i","n","c">> }
  ELSE IF language = "HLASM"
    THEN { <<"h","l","a">>, <<"h","l","a","s","m">>, <<"a","s","s","e","m","b","l","e">> }
  ELSE IF language = "BMS"
    THEN { <<"b","m","s">>, <<"b","m","c">> }
  ELSE {}

\* all_valid_extensions: the union over the languages
BQ_ALL_VALID_EXTENSIONS ==
  UNION { BQ_VALID_EXTENSIONS(BQ_LANGUAGES[i]) : i \in DOMAIN BQ_LANGUAGES }

\* file_path.rsplit(".", 1): the index of the last dot, 0 when there is none
LastDot(file_path) ==
  IF \E i \in DOMAIN file_path : file_path[i] = "."
    THEN CHOOSE i \in DOMAIN file_path :
           file_path[i] = "." /\ \A j \in (i + 1)..Len(file_path) : file_path[j] # "."
    ELSE 0

\* _extract_extension taking the text after the first dot.
extract_extension_FirstDot(file_path) ==
  IF file_path = None \/ file_path = <<>> THEN <<>>
  ELSE IF \E i \in DOMAIN file_path : file_path[i] = "."
    THEN Lower(SubSeq(file_path,
                      (CHOOSE i \in DOMAIN file_path :
                         file_path[i] = "." /\ \A j \in 1..(i - 1) : file_path[j] # ".") + 1,
                      Len(file_path)))
  ELSE <<>>

\* _extract_extension
extract_extension(file_path) ==
  IF file_path = None \/ file_path = <<>> THEN <<>>
  ELSE IF LastDot(file_path) > 0
    THEN Lower(SubSeq(file_path, LastDot(file_path) + 1, Len(file_path)))
  ELSE <<>>

\* _infer_language_from_extension
infer_language_from_extension(extension) ==
  LET ext == LStripChar(Lower(extension), ".")
  IN  IF \E i \in DOMAIN BQ_LANGUAGES : ext \in BQ_VALID_EXTENSIONS(BQ_LANGUAGES[i])
        THEN BQ_LANGUAGES[CHOOSE i \in DOMAIN BQ_LANGUAGES :
                            /\ ext \in BQ_VALID_EXTENSIONS(BQ_LANGUAGES[i])
                            /\ \A j \in 1..(i - 1) : ext \notin BQ_VALID_EXTENSIONS(BQ_LANGUAGES[j])]
      ELSE IF ext = <<"j","c","l">> THEN "JCL"
      ELSE IF ext \in { <<"p","l","i">>, <<"p","l","1">> } THEN "PL/I"
      ELSE IF ext = <<"a","s","m">> THEN "HLASM"
      ELSE IF ext = <<"b","m","s">> THEN "BMS"
      ELSE "UNKNOWN"

(* A row's content column: a base64 string.  valid says whether            *)
(* base64.b64decode accepts it; text is what the decoded bytes read as in  *)
(* latin-1, which maps every byte and so never fails.                      *)
Base64Of(text) == [valid |-> TRUE, text |-> text]

Base64Invalid == [valid |-> FALSE, text |-> NoneContent]

\* The decode taking a content that base64 rejects for a decoded one.
DecodeContent_Lenient(blob) == [ok |-> TRUE, content |-> blob.text]

\* Lines 139-146: the decoded text, or the failure of the decode.
DecodeContent(blob) ==
  IF blob.valid THEN [ok |-> TRUE, content |-> blob.text]
  ELSE [ok |-> FALSE, content |-> NoneContent]

\* load_bigquery recounting the tokens of an admitted text.
BigqueryNumTokens_Recount(content, num_tokens) == SplitLinesLen(content)

\* Line 170: the num_tokens of a record of load_bigquery.
BigqueryNumTokens(content, num_tokens) == num_tokens

\* load_bigquery setting the license type from the presence of a license.
BigqueryLicenseType_Presence(license_name) ==
  IF license_name = None THEN "no_license" ELSE "permissive"

\* Line 156: the license type of a record of load_bigquery.
BigqueryLicenseType(license_name) == classify_license_type(license_name)

\* Lines 154-175: the Unified Record of an admitted row.
BigqueryRecord(row, extension, language, content, num_tokens) ==
  LET license_name == IF row.license = None \/ row.license = <<>> THEN None ELSE row.license
  IN  [ content |-> content,
        repo_name |-> row.repo_name,
        file_path |-> row.path,
        language |-> language,
        extension |-> extension,
        license_type |-> BigqueryLicenseType(license_name),
        licenses |-> IF license_name = None THEN <<>> ELSE <<license_name>>,
        host_url |-> "https://github.com",
        source |-> "bigquery",
        num_tokens |-> BigqueryNumTokens(content, num_tokens),
        revision_id |-> "",
        commit_date |-> "",
        branch |-> "" ]

\* Lines 124-178: what load_bigquery does with one row: the reason it drops
\* the row, or "yield" with the record.
BigqueryStep(row) ==
  LET extension == extract_extension(row.path)
      language == infer_language_from_extension(extension)
      decoded == DecodeContent(row.content)
      num_tokens == passes_filters(decoded.content)
  IN  IF extension \notin BQ_ALL_VALID_EXTENSIONS
        THEN [outcome |-> "invalid_extension", filtered |-> FALSE, language |-> language]
      ELSE IF ~decoded.ok
        THEN [outcome |-> "decode_failure", filtered |-> FALSE, language |-> language]
      ELSE IF num_tokens.isNone
        THEN [outcome |-> "filter_rejection", filtered |-> TRUE, language |-> language,
              content |-> decoded.content, result |-> num_tokens]
      ELSE [outcome |-> "yield", filtered |-> TRUE, language |-> language,
            content |-> decoded.content, result |-> num_tokens,
            record |-> BigqueryRecord(row, extension, language, decoded.content,
                                      num_tokens.value)]

\* The texts the normalizers are exercised on: admitted, admitted with no
\* token, too few lines, too many tokens.
T_admitted == Text(MIN_LINES - 1, TRUE, 40)
T_no_token == Text(MIN_LINES, FALSE, 0)
T_short == Text(1, TRUE, 7)
T_costly == Text(MIN_LINES, TRUE, MAX_TOKENS + 1)

IngestTexts == {T_admitted, T_no_token, T_short, T_costly}

BP_file_jcl == <<"a","/","b","/","f","i","l","e",".","j","c","l">>
BP_X_PLI == <<"v","1",".","2","/","X",".","P","L","I">>
BP_Makefile == <<"M","a","k","e","f","i","l","e">>
BP_m_asm == <<"m",".","a","s","m">>

\* The rows the bulk query can return.
BigqueryRows ==
  { [repo_name |-> "org/repo", path |-> p, content |-> c, license |-> l] :
      p \in {BP_file_jcl, BP_X_PLI, BP_Makefile, BP_m_asm},
      c \in {Base64Invalid} \cup {Base64Of(t) : t \in IngestTexts},
      l \in {None, <<>>, L_MIT, L_Proprietary} }

----------------------------------------------------------------------------
(* ingestion/stack.py                                                      *)

LANG_COBOL == <<"C","O","B","O","L">>
LANG_REXX == <<"R","E","X","X">>
LANG_RPGLE == <<"R","P","G","L","E">>
LANG_cobol == <<"c","o","b","o","l">>
LANG_Fortran == <<"F","o","r","t","r","a","n">>

\* stack.VALID_EXTENSIONS.get(key, set())
STACK_VALID_EXTENSIONS(key) ==
  IF key = LANG_COBOL
    THEN { <<"c","b","l">>, <<"c","o","b">>, <<"c","o","b","o","l">>, <<"c","p","y">>,
           <<"c","c","p">>, <<"w","k","s">>, <<"p","c","o">> }
  ELSE IF key = LANG_REXX
    THEN { <<"r","e","x","x">>, <<"r","e","x">>, <<"r","x">>, <<"r","x","j">>,
           <<"p","p","r","x">>, <<"o","r","x">>, <<"r","e","x","g">>, <<"e","x","e","c">> }
  ELSE IF key = LANG_RPGLE
    THEN { <<"r","p","g","l","e">>, <<"s","q","l","r","p","g","l","e">>, <<"r","p","g">>,
           <<"d","d","s">> }
  ELSE {}

(* A blob of the Software Heritage store: whether its fetch and decode     *)
(* succeed, and the text it then holds.                                    *)
BlobOf(text) == [fetched |-> TRUE, text |-> text]

BlobUnavailable == [fetched |-> FALSE, text |-> NoneContent]

\* download_blob returning an empty text when the fetch fails.
download_blob_EmptyOnFailure(blob) == IF blob.fetched THEN blob.text ELSE Text(0, FALSE, 0)

\* download_blob: the text, or None when anything fails.
download_blob(blob) == IF blob.fetched THEN blob.text ELSE NoneContent

\* Lines 72-86: dataset.map, the row as the loop reads it.
MapRow(row) ==
  [ content |-> download_blob(row.blob),
    licenses |-> row.detected_licenses,
    license_type |-> row.license_type,
    host_url |-> "https://github.com",
    repo_name |-> row.repo_name,
    file_path |-> row.path,
    language |-> row.language,
    extension |-> row.extension,
    branch |-> row.branch_name,
    revision_id |-> row.revision_id,
    commit_date |-> row.committer_date ]

\* Line 100: the extension as it is compared with the valid set.
NormalizedExtension(extension) ==
  IF extension = None \/ extension = <<>> THEN <<>>
  ELSE LStripChar(Lower(extension), ".")

\* load_stack testing the token count for truth, not against None.
StackAdmits_Truthiness(result) == ~result.isNone /\ result.value # 0

\* Lines 106-108: num_tokens is not None.
StackAdmits(result) == ~result.isNone

\* load_stack classifying the first detected license itself.
StackLicenseType_Classified(m) ==
  classify_license_type(IF m.licenses = <<>> THEN None ELSE m.licenses[1])

\* Line 116: the license type of a record of load_stack.
StackLicenseType(m) == m.license_type

\* load_stack leaving the branch out of a record.
StackRecord_NoBranch(m, num_tokens) ==
  [ content |-> m.content,
    repo_name |-> m.repo_name,
    file_path |-> m.file_path,
    language |-> m.language,
    extension |-> m.extension,
    license_type |-> m.license_type,
    licenses |-> m.licenses,
    host_url |-> m.host_url,
    source |-> "stack",
    num_tokens |-> num_tokens,
    revision_id |-> m.revision_id,
    commit_date |-> m.commit_date ]

\* Lines 111-125: the Unified Record of an admitted row.
StackRecord(m, num_tokens) ==
  [ content |-> m.content,
    repo_name |-> m.repo_name,
    file_path |-> m.file_path,
    language |-> m.language,
    extension |-> m.extension,
    license_type |-> StackLicenseType(m),
    licenses |-> m.licenses,
    host_url |-> m.host_url,
    source |-> "stack",
    num_tokens |-> num_tokens,
    revision_id |-> m.revision_id,
    commit_date |-> m.commit_date,
    branch |-> m.branch ]

\* Lines 94-127: what load_stack(language) does with one row.
StackStep(language, row) ==
  LET m == MapRow(row)
      valid_extensions == STACK_VALID_EXTENSIONS(Upper(language))
      num_tokens == passes_filters(m.content)
  IN  IF m.content.kind = "none"
        THEN [outcome |-> "no_content", filtered |-> FALSE, language |-> m.language]
      ELSE IF valid_extensions # {} /\ NormalizedExtension(m.extension) \notin valid_extensions
        THEN [outcome |-> "invalid_extension", filtered |-> FALSE, language |-> m.language]
      ELSE IF ~StackAdmits(num_tokens)
        THEN [outcome |-> "filter_rejection", filtered |-> TRUE, language |-> m.language,
              content |-> m.content, result |-> num_tokens]
      ELSE [outcome |-> "yield", filtered |-> TRUE, language |-> m.language,
            content |-> m.content, result |-> num_tokens,
            record |-> StackRecord(m, num_tokens.value)]

\* The rows of the-stack-v2-dedup: the upstream license_type is whatever the
\* dataset holds, a category or (as in this repository's tests) a license name.
StackRowOf(b, lt, lg, e) ==
  [ blob |-> b,
    detected_licenses |-> IF lt = "no_license" THEN <<>> ELSE <<L_MIT>>,
    license_type |-> lt,
    repo_name |-> "org/repo",
    path |-> <<"s","r","c","/","p","r","o","g",".","c","o","b">>,
    language |-> lg,
    extension |-> e,
    branch_name |-> "refs/heads/main",
    revision_id |-> "rev1",
    committer_date |-> "2020-01-01T00:00:00" ]

StackRowsOf(lg) ==
  { StackRowOf(b, lt, lg, e) :
      b \in {BlobUnavailable} \cup {BlobOf(t) : t \in IngestTexts},
      lt \in {"permissive", "no_license", "MIT"},
      e \in { <<".","c","o","b">>, <<"C","B","L">>, <<"t","x","t">>, None } }

StackRows == StackRowsOf("COBOL") \cup StackRowsOf("Fortran")

\* Lines 64-69: the rows of the partition data/<language> carry that language.
PartitionLanguage(language) ==
  IF Upper(language) = LANG_COBOL THEN "COBOL"
  ELSE IF Upper(language) = LANG_REXX THEN "REXX"
  ELSE IF Upper(language) = LANG_RPGLE THEN "RPGLE"
  ELSE "Fortran"

StackPartition(language) == StackRowsOf(PartitionLanguage(language))

\* The languages load_stack is called with.
StackLanguages == {LANG_COBOL, LANG_cobol, LANG_Fortran}

----------------------------------------------------------------------------
VARIABLES
  licLog,      \* the calls of classify_license_type so far: input and result
  TOKENIZER,   \* filters._TOKENIZER: "None" until first built
  tokBuilds,   \* how often AutoTokenizer.from_pretrained has run
  tokUses,     \* how often tokenizer.tokenize has run
  fCalls,      \* how many calls of passes_filters were made
  fLast,       \* the last call of passes_filters: content and result
  hubRows,     \* the rows stored at the destination zorse/<dataset_name>
  hubHasData,  \* whether a train split has ever been pushed there
  repoExists,  \* whether the destination repository exists
  nUploads,    \* how many calls of upload_to_hf were started
  pc,          \* per publish run: where upload_to_hf stands
  args,        \* per publish run: file_paths and the HF_TOKEN it sees
  existing_dataset, \* per publish run: the local of that name
  dataset,     \* per publish run: the local of that name
  raised,      \* per publish run: the exception that ended it, or "none"
  loadOutcome, \* per publish run: how the load of the destination ended
  apiCalls,    \* per publish run: the network and I/O calls made, in order
  hubAtStart,  \* per publish run: the destination's rows when it started
  gen,         \* the normalizer running: load_bigquery, or load_stack and its language
  gpc,         \* where that generator stands
  count,       \* its local count
  skipped,     \* load_bigquery's local skipped
  skipped_extensions, \* its local skipped_extensions
  yielded,     \* the records it has yielded, in order
  outcomes,    \* what became of each row it consumed, in order
  last,        \* the row consumed last, its language, and the counts before it
  bpc,         \* where build_dataset stands
  languages,   \* its argument of that name, after the default is applied
  include_bigquery, \* its argument of that name
  lang_i,      \* the position of its loop in languages
  all_rows,    \* its local of that name
  outputFile,  \* the file at output_path: whether it exists, and its lines
  adapterLog,  \* the adapter runs it has driven to their end, and what each yielded
  fileAtCall   \* the file at output_path as it was when build_dataset was called

licVars == <<licLog>>
filterVars == <<TOKENIZER, tokBuilds, tokUses, fCalls, fLast>>
hubVars == <<hubRows, hubHasData, repoExists>>
runVars ==
  <<nUploads, pc, args, existing_dataset, dataset, raised, loadOutcome, apiCalls, hubAtStart>>
uploadVars == <<hubVars, runVars>>
genVars == <<gen, gpc, count, skipped, skipped_extensions, yielded, outcomes, last>>
buildVars ==
  <<bpc, languages, include_bigquery, lang_i, all_rows, outputFile, adapterLog, fileAtCall>>
vars == <<licVars, filterVars, uploadVars, genVars, buildVars>>

\* What each component leaves alone.
notLicVars == <<filterVars, uploadVars, genVars, buildVars>>
notFilterVars == <<licVars, uploadVars, genVars, buildVars>>
notUploadVars == <<licVars, filterVars, genVars, buildVars>>

MaxClassifyCalls == 3
MaxFilterCalls == 3
MaxUploads == 2
MaxPaths == 2
MaxRows == 2

\* The publish runs: two processes that may publish to the same destination.
Runs == {1, 2}

LicInit == licLog = <<>>

FilterInit ==
  /\ TOKENIZER = "None"
  /\ tokBuilds = 0
  /\ tokUses = 0
  /\ fCalls = 0
  /\ fLast = [called |-> FALSE, content |-> NoneContent, result |-> NoneResult,
              tokenizerBefore |-> "None", buildsBefore |-> 0, usesBefore |-> 0]

\* No publish run has started.
RunsInit ==
  /\ nUploads = 0
  /\ pc = [r \in Runs |-> "idle"]
  /\ args = [r \in Runs |-> [file_paths |-> <<>>, token |-> None]]
  /\ existing_dataset = [r \in Runs |-> NoDataset]
  /\ dataset = [r \in Runs |-> <<>>]
  /\ raised = [r \in Runs |-> "none"]
  /\ loadOutcome = [r \in Runs |-> "none"]
  /\ apiCalls = [r \in Runs |-> <<>>]
  /\ hubAtStart = [r \in Runs |-> <<>>]

GenInit ==
  /\ gen = [adapter |-> "none", language |-> <<>>]
  /\ gpc = "idle"
  /\ count = 0
  /\ skipped = 0
  /\ skipped_extensions = 0
  /\ yielded = <<>>
  /\ outcomes = <<>>
  /\ last = [consumed |-> FALSE]

\* The destination does not exist yet.
HubAbsent == hubRows = <<>> /\ hubHasData = FALSE /\ repoExists = FALSE

\* The destination is absent, or empty, or holds a corpus published earlier.
HubAny ==
  \/ hubRows = <<>> /\ hubHasData = FALSE /\ repoExists \in BOOLEAN
  \/ hubRows = <<"p1", "p2">> /\ hubHasData = TRUE /\ repoExists = TRUE

\* A file on disk: absent, or holding lines.
NoFile == [exists |-> FALSE, lines |-> <<>>]

FileOf(lines) == [exists |-> TRUE, lines |-> lines]

\* build_dataset has not been called.
BuildIdle ==
  /\ bpc = "idle"
  /\ languages = <<>>
  /\ include_bigquery = FALSE
  /\ lang_i = 1
  /\ all_rows = <<>>
  /\ adapterLog = <<>>
  /\ fileAtCall = NoFile

Init == LicInit /\ FilterInit /\ HubAbsent /\ RunsInit /\ GenInit /\ BuildIdle /\ outputFile = NoFile

UploadInit ==
  LicInit /\ FilterInit /\ HubAny /\ RunsInit /\ GenInit /\ BuildIdle /\ outputFile = NoFile

(* One call of classify_license_type.                                      *)
ClassifyCall(l) ==
  /\ Len(licLog) < MaxClassifyCalls
  /\ licLog' = Append(licLog, [input |-> l, result |-> classify_license_type(l)])
  /\ UNCHANGED notLicVars

LicNext == \E l \in LicenseInputs : ClassifyCall(l)

SpecLicense == Init /\ [][LicNext]_vars

(* The effect of one call of passes_filters on the filter's state: the     *)
(* tokenizer singleton is built when first needed.                         *)
RunFilter(content) ==
  /\ fCalls' = fCalls + 1
  /\ fLast' = [called |-> TRUE, content |-> content, result |-> passes_filters(content),
               tokenizerBefore |-> TOKENIZER, buildsBefore |-> tokBuilds, usesBefore |-> tokUses]
  /\ IF ReachesTokenizer(content)
       THEN /\ TOKENIZER' = get_tokenizer(TOKENIZER)
            /\ tokBuilds' = tokBuilds + (IF TOKENIZER = "None" THEN 1 ELSE 0)
            /\ tokUses' = tokUses + 1
       ELSE UNCHANGED <<TOKENIZER, tokBuilds, tokUses>>

(* One direct call of passes_filters.                                      *)
PassesFiltersCall(content) ==
  /\ fCalls < MaxFilterCalls
  /\ RunFilter(content)
  /\ UNCHANGED notFilterVars

FilterNext == \E content \in FilterContents : PassesFiltersCall(content)

SpecFilter == Init /\ [][FilterNext]_vars

(* upload_to_hf(file_paths, dataset_name), one publish run r.              *)

\* upload_to_hf loading the input files before the destination's contents.
NextStep_FilesFirst(step) ==
  IF step = "check" THEN "create_repo"
  ELSE IF step = "create_repo" THEN "load_files"
  ELSE IF step = "load_files" THEN "load_existing"
  ELSE IF step = "load_existing" THEN "push"
  ELSE "done"

\* Lines 25-56: the statement that follows a step that did not raise.
NextStep(step) ==
  IF step = "check" THEN "create_repo"
  ELSE IF step = "create_repo" THEN "load_existing"
  ELSE IF step = "load_existing" THEN "load_files"
  ELSE IF step = "load_files" THEN "push"
  ELSE "done"

\* The call is made: nothing has been checked or touched yet.
UploadCall(r, file_paths, token) ==
  /\ pc[r] \in {"idle", "done", "raised"}
  /\ nUploads < MaxUploads
  /\ nUploads' = nUploads + 1
  /\ pc' = [pc EXCEPT ![r] = "check"]
  /\ args' = [args EXCEPT ![r] = [file_paths |-> file_paths, token |-> token]]
  /\ existing_dataset' = [existing_dataset EXCEPT ![r] = NoDataset]
  /\ dataset' = [dataset EXCEPT ![r] = <<>>]
  /\ raised' = [raised EXCEPT ![r] = "none"]
  /\ loadOutcome' = [loadOutcome EXCEPT ![r] = "none"]
  /\ apiCalls' = [apiCalls EXCEPT ![r] = <<>>]
  /\ hubAtStart' = [hubAtStart EXCEPT ![r] = hubRows]
  /\ UNCHANGED hubVars
  /\ UNCHANGED notUploadVars

\* Lines 25-34: the path loop and the token test.
CheckPreconditions(r) ==
  /\ pc[r] = "check"
  /\ LET e == PreconditionError(args[r].file_paths, args[r].token)
     IN  IF e = "ok"
           THEN /\ pc' = [pc EXCEPT ![r] = NextStep("check")]
                /\ UNCHANGED raised
           ELSE /\ pc' = [pc EXCEPT ![r] = "raised"]
                /\ raised' = [raised EXCEPT ![r] = e]
  /\ UNCHANGED <<hubVars, nUploads, args, existing_dataset, dataset, loadOutcome, apiCalls,
                 hubAtStart>>
  /\ UNCHANGED notUploadVars

\* Line 37: create_repo(..., exist_ok=True), which may fail.
CreateRepo(r, ok) ==
  /\ pc[r] = "create_repo"
  /\ apiCalls' = [apiCalls EXCEPT ![r] = Append(@, "create_repo")]
  /\ IF ok
       THEN /\ repoExists' = TRUE
            /\ pc' = [pc EXCEPT ![r] = NextStep("create_repo")]
            /\ UNCHANGED raised
       ELSE /\ pc' = [pc EXCEPT ![r] = "raised"]
            /\ raised' = [raised EXCEPT ![r] = "HfHubHTTPError 401"]
            /\ UNCHANGED repoExists
  /\ UNCHANGED <<hubRows, hubHasData, nUploads, args, existing_dataset, dataset, loadOutcome,
                 hubAtStart>>
  /\ UNCHANGED notUploadVars

\* Lines 39-44: the load of the destination's current contents.
LoadExisting(r, outcome) ==
  /\ pc[r] = "load_existing"
  /\ outcome \in LoadOutcomes(hubHasData)
  /\ apiCalls' = [apiCalls EXCEPT ![r] = Append(@, "load_dataset(repo)")]
  /\ loadOutcome' = [loadOutcome EXCEPT ![r] = outcome]
  /\ IF outcome = "rows"
       THEN /\ existing_dataset' = [existing_dataset EXCEPT ![r] = Dataset(hubRows)]
            /\ pc' = [pc EXCEPT ![r] = NextStep("load_existing")]
            /\ UNCHANGED raised
       ELSE IF CaughtByExcept(outcome)
         THEN /\ existing_dataset' = [existing_dataset EXCEPT ![r] = NoDataset]
              /\ pc' = [pc EXCEPT ![r] = NextStep("load_existing")]
              /\ UNCHANGED raised
         ELSE /\ pc' = [pc EXCEPT ![r] = "raised"]
              /\ raised' = [raised EXCEPT ![r] = outcome]
              /\ UNCHANGED existing_dataset
  /\ UNCHANGED <<hubVars, nUploads, args, dataset, hubAtStart>>
  /\ UNCHANGED notUploadVars

\* Line 46: the load of the input files, which may fail.
LoadFiles(r, ok) ==
  /\ pc[r] = "load_files"
  /\ apiCalls' = [apiCalls EXCEPT ![r] = Append(@, "load_dataset(json)")]
  /\ IF ok
       THEN /\ dataset' = [dataset EXCEPT ![r] = LoadJsonFiles(args[r].file_paths)]
            /\ pc' = [pc EXCEPT ![r] = NextStep("load_files")]
            /\ UNCHANGED raised
       ELSE /\ pc' = [pc EXCEPT ![r] = "raised"]
            /\ raised' = [raised EXCEPT ![r] = "DatasetGenerationError"]
            /\ UNCHANGED dataset
  /\ UNCHANGED <<hubVars, nUploads, args, existing_dataset, loadOutcome, hubAtStart>>
  /\ UNCHANGED notUploadVars

\* Lines 48-56: the merge and push_to_hub, which replaces the stored rows
\* or fails and leaves them.
PushToHub(r, ok) ==
  /\ pc[r] = "push"
  /\ apiCalls' = [apiCalls EXCEPT ![r] = Append(@, "push_to_hub")]
  /\ IF ok
       THEN /\ hubRows' = PushedRows(hubRows, existing_dataset[r], dataset[r])
            /\ hubHasData' = TRUE
            /\ pc' = [pc EXCEPT ![r] = NextStep("push")]
            /\ UNCHANGED raised
       ELSE /\ pc' = [pc EXCEPT ![r] = "raised"]
            /\ raised' = [raised EXCEPT ![r] = "HfHubHTTPError 500"]
            /\ UNCHANGED <<hubRows, hubHasData>>
  /\ UNCHANGED <<repoExists, nUploads, args, existing_dataset, dataset, loadOutcome, hubAtStart>>
  /\ UNCHANGED notUploadVars

\* Publish runs made one after the other by one process.
UploadNext ==
  \/ \E file_paths \in SeqsUpTo(Paths, MaxPaths), token \in HfTokens :
       UploadCall(1, file_paths, token)
  \/ CheckPreconditions(1)
  \/ \E ok \in BOOLEAN : CreateRepo(1, ok)
  \/ \E outcome \in LoadOutcomes(hubHasData) : LoadExisting(1, outcome)
  \/ \E ok \in BOOLEAN : LoadFiles(1, ok)
  \/ \E ok \in BOOLEAN : PushToHub(1, ok)

SpecUpload == UploadInit /\ [][UploadNext]_vars

\* Two processes each publishing one file to the same destination: the
\* steps of their calls interleave freely.
RacePaths == {<<P_a_jsonl>>, <<P_b_jsonl>>}

RaceNext ==
  \/ \E r \in Runs, file_paths \in RacePaths, token \in HfTokens :
       UploadCall(r, file_paths, token)
  \/ \E r \in Runs : CheckPreconditions(r)
  \/ \E r \in Runs, ok \in BOOLEAN : CreateRepo(r, ok)
  \/ \E r \in Runs, outcome \in LoadOutcomes(hubHasData) : LoadExisting(r, outcome)
  \/ \E r \in Runs, ok \in BOOLEAN : LoadFiles(r, ok)
  \/ \E r \in Runs, ok \in BOOLEAN : PushToHub(r, ok)

SpecRace == UploadInit /\ [][RaceNext]_vars

(* The normalizers, each a generator driven by its consumer.               *)

\* load_bigquery() up to its loop: the query runs, or fails.
LoadBigquery(ok) ==
  /\ gpc = "idle"
  /\ gen' = [adapter |-> "bigquery", language |-> <<>>]
  /\ gpc' = IF ok THEN "loop" ELSE "raised"
  /\ UNCHANGED <<count, skipped, skipped_extensions, yielded, outcomes, last>>
  /\ UNCHANGED <<licVars, filterVars, uploadVars, buildVars>>

\* load_stack(language) up to its loop: the dataset loads, or fails.
LoadStack(language, ok) ==
  /\ gpc = "idle"
  /\ gen' = [adapter |-> "stack", language |-> language]
  /\ gpc' = IF ok THEN "loop" ELSE "raised"
  /\ UNCHANGED <<count, skipped, skipped_extensions, yielded, outcomes, last>>
  /\ UNCHANGED <<licVars, filterVars, uploadVars, buildVars>>

\* What a step of either loop does to the shared state, given its outcome.
ConsumeRow(row, step) ==
  /\ last' = [consumed |-> TRUE, row |-> row, fCallsBefore |-> fCalls,
              yieldedBefore |-> Len(yielded), skippedBefore |-> skipped,
              skippedExtensionsBefore |-> skipped_extensions, language |-> step.language]
  /\ outcomes' = Append(outcomes, step.outcome)
  /\ IF step.filtered THEN RunFilter(step.content) ELSE UNCHANGED filterVars
  /\ IF step.outcome = "yield"
       THEN /\ yielded' = Append(yielded, step.record)
            /\ gpc' = "yielded"
       ELSE UNCHANGED <<yielded, gpc>>
  /\ UNCHANGED <<gen, count, uploadVars, buildVars>>

\* load_bigquery counting only the filter rejections as skipped.
BigquerySkipped_FiltersOnly(n, outcome) ==
  n + (IF outcome = "filter_rejection" THEN 1 ELSE 0)

\* Lines 143-152: skipped after a row, counted up by a decode failure and by
\* a filter rejection alike.
BigquerySkipped(n, outcome) ==
  n + (IF outcome \in {"decode_failure", "filter_rejection"} THEN 1 ELSE 0)

\* One turn of load_bigquery's loop, to its continue or its yield.
BigqueryRow(row) ==
  /\ gpc = "loop"
  /\ gen.adapter = "bigquery"
  /\ Len(outcomes) < MaxRows
  /\ LET step == BigqueryStep(row)
     IN  /\ ConsumeRow(row, step)
         /\ skipped_extensions' =
              skipped_extensions + (IF step.outcome = "invalid_extension" THEN 1 ELSE 0)
         /\ skipped' = BigquerySkipped(skipped, step.outcome)
         /\ IF step.outcome = "yield"
              THEN licLog' = Append(licLog,
                     [input |-> IF row.license = <<>> THEN None ELSE row.license,
                      result |-> step.record.license_type])
              ELSE UNCHANGED licLog

\* One turn of load_stack's loop, to its continue or its yield.
StackRow(row) ==
  /\ gpc = "loop"
  /\ gen.adapter = "stack"
  /\ Len(outcomes) < MaxRows
  /\ LET step == StackStep(gen.language, row)
     IN  /\ ConsumeRow(row, step)
         /\ skipped_extensions' =
              skipped_extensions + (IF step.outcome = "invalid_extension" THEN 1 ELSE 0)
         /\ UNCHANGED <<skipped, licLog>>

\* The consumer asks for the next record: the generator resumes after its
\* yield and counts the record.
Resume ==
  /\ gpc = "yielded"
  /\ gpc' = "loop"
  /\ count' = count + 1
  /\ UNCHANGED <<gen, skipped, skipped_extensions, yielded, outcomes, last>>
  /\ UNCHANGED <<licVars, filterVars, uploadVars, buildVars>>

\* The source has no further row: the loop ends and the totals are logged.
Exhausted ==
  /\ gpc = "loop"
  /\ gpc' = "finished"
  /\ UNCHANGED <<gen, count, skipped, skipped_extensions, yielded, outcomes, last>>
  /\ UNCHANGED <<licVars, filterVars, uploadVars, buildVars>>

IngestNext ==
  \/ \E ok \in BOOLEAN : LoadBigquery(ok)
  \/ \E language \in StackLanguages, ok \in BOOLEAN : LoadStack(language, ok)
  \/ \E row \in BigqueryRows : BigqueryRow(row)
  \/ \E row \in StackPartition(gen.language) : StackRow(row)
  \/ Resume
  \/ Exhausted

SpecIngest == Init /\ [][IngestNext]_vars

----------------------------------------------------------------------------
(* scripts/build_dataset.py                                                *)

\* Lines 21-22: the languages argument, None by default.
LanguagesNotGiven == [given |-> FALSE, list |-> <<>>]

LanguagesGiven(list) == [given |-> TRUE, list |-> list]

DEFAULT_LANGUAGES == <<LANG_COBOL, LANG_REXX, LANG_RPGLE>>

BuildLanguages(arg) == IF arg.given THEN arg.list ELSE DEFAULT_LANGUAGES

\* The keys of a record's dict, in insertion order.
RecordKeys ==
  << "content", "repo_name", "file_path", "language", "extension", "license_type",
     "licenses", "host_url", "source", "num_tokens", "revision_id", "commit_date", "branch" >>

\* json.dumps(row): the object's members, key and value, in the dict's order.
JsonDumps(row) == [i \in DOMAIN RecordKeys |-> <<RecordKeys[i], row[RecordKeys[i]]>>]

\* Line 43: one line of the file.
JsonLine(row) == [text |-> JsonDumps(row), end |-> "\n"]

\* all_rows.extend(rows) putting the new rows first.
Extend_Prepend(rows, more) == more \o rows

\* Lines 32 and 38: all_rows.extend(rows)
Extend(rows, more) == rows \o more

\* Lines 41-43: the lines written to a file opened with mode "w".
WrittenLines(rows) == [i \in DOMAIN rows |-> JsonLine(rows[i])]

\* The rows the adapters' sources hold while the corpus is built.
BuildExtension(language) ==
  IF PartitionLanguage(language) = "COBOL" THEN <<"c","b","l">>
  ELSE IF PartitionLanguage(language) = "REXX" THEN <<"r","e","x","x">>
  ELSE <<"r","p","g","l","e">>

BuildStackRows(language) ==
  { StackRowOf(BlobOf(t), "permissive", PartitionLanguage(language), BuildExtension(language)) :
      t \in {T_admitted, T_no_token, T_short} }

BuildBigqueryRows ==
  { [repo_name |-> "org/repo", path |-> BP_file_jcl, content |-> Base64Of(t), license |-> L_MIT] :
      t \in {T_admitted, T_no_token, T_short} }

\* The calls of build_dataset that are made.
BuildLanguageArgs ==
  { LanguagesNotGiven, LanguagesGiven(<<>>), LanguagesGiven(<<LANG_COBOL>>),
    LanguagesGiven(<<LANG_REXX, LANG_COBOL>>) }

MaxBuildRows == 3

\* How many source rows the adapter runs of a log consumed.
RECURSIVE RowsConsumed(_)
RowsConsumed(log) ==
  IF log = <<>> THEN 0 ELSE log[1].rows + RowsConsumed(Tail(log))

BuildRowsLeft == RowsConsumed(adapterLog) + Len(outcomes) < MaxBuildRows

\* Lines 21-25: the call, up to the loop over the languages.
BuildDataset(arg, include) ==
  /\ bpc = "idle"
  /\ gpc = "idle"
  /\ bpc' = "stack"
  /\ languages' = BuildLanguages(arg)
  /\ include_bigquery' = include
  /\ lang_i' = 1
  /\ all_rows' = <<>>
  /\ adapterLog' = <<>>
  /\ fileAtCall' = outputFile
  /\ UNCHANGED outputFile
  /\ UNCHANGED <<licVars, filterVars, uploadVars, genVars>>

\* Line 31: load_stack(language) is called for the next language.
BuildLoadStack(ok) ==
  /\ bpc = "stack"
  /\ lang_i <= Len(languages)
  /\ LoadStack(languages[lang_i], ok)

\* Line 31: list(...) draws the adapter's next row.
BuildStackRow(row) ==
  /\ bpc = "stack"
  /\ BuildRowsLeft
  /\ StackRow(row)

\* Line 37: load_bigquery() is called.
BuildLoadBigquery(ok) ==
  /\ bpc = "bigquery"
  /\ LoadBigquery(ok)

\* Line 37: list(...) draws the adapter's next row.
BuildBigqueryRow(row) ==
  /\ bpc = "bigquery"
  /\ BuildRowsLeft
  /\ BigqueryRow(row)

\* list(...) asks the adapter for its next record.
BuildResume ==
  /\ bpc \in {"stack", "bigquery"}
  /\ Resume

\* The adapter's source is exhausted.
BuildExhausted ==
  /\ bpc \in {"stack", "bigquery"}
  /\ Exhausted

\* Lines 31-32 and 37-38: list(...) returns and all_rows is extended; the
\* generator is gone and the next adapter call starts a fresh one.
BuildExtend ==
  /\ bpc \in {"stack", "bigquery"}
  /\ gpc = "finished"
  /\ all_rows' = Extend(all_rows, yielded)
  /\ adapterLog' = Append(adapterLog,
       [adapter |-> gen.adapter, language |-> gen.language, yielded |-> yielded,
        rows |-> Len(outcomes)])
  /\ IF bpc = "stack"
       THEN lang_i' = lang_i + 1 /\ UNCHANGED bpc
       ELSE bpc' = "write" /\ UNCHANGED lang_i
  /\ gen' = [adapter |-> "none", language |-> <<>>]
  /\ gpc' = "idle"
  /\ count' = 0
  /\ skipped' = 0
  /\ skipped_extensions' = 0
  /\ yielded' = <<>>
  /\ outcomes' = <<>>
  /\ last' = [consumed |-> FALSE]
  /\ UNCHANGED <<languages, include_bigquery, outputFile, fileAtCall>>
  /\ UNCHANGED <<licVars, filterVars, uploadVars>>

\* build_dataset writing the file as soon as the languages are done.
AfterLanguages_WriteFirst(include) == "write"

\* Lines 35-41: what comes after the loop over the languages.
AfterLanguages(include) == IF include THEN "bigquery" ELSE "write"

\* Lines 29-35: the loop over the languages ends; the bulk query runs only
\* when include_bigquery is set.
BuildLoopEnd ==
  /\ bpc = "stack"
  /\ lang_i > Len(languages)
  /\ bpc' = AfterLanguages(include_bigquery)
  /\ UNCHANGED <<languages, include_bigquery, lang_i, all_rows, outputFile, adapterLog,
                 fileAtCall>>
  /\ UNCHANGED <<licVars, filterVars, uploadVars, genVars>>

\* An adapter raised: build_dataset catches nothing and ends without writing.
BuildPropagate ==
  /\ bpc \in {"stack", "bigquery"}
  /\ gpc = "raised"
  /\ bpc' = "raised"
  /\ UNCHANGED <<languages, include_bigquery, lang_i, all_rows, outputFile, adapterLog,
                 fileAtCall>>
  /\ UNCHANGED <<licVars, filterVars, uploadVars, genVars>>

\* Lines 41-43: the file is opened for writing, which creates or truncates it,
\* and one line is written per row; or the open fails.
BuildWrite(ok) ==
  /\ bpc = "write"
  /\ IF ok
       THEN /\ outputFile' = FileOf(WrittenLines(all_rows))
            /\ bpc' = "done"
       ELSE /\ bpc' = "raised"
            /\ UNCHANGED outputFile
  /\ UNCHANGED <<languages, include_bigquery, lang_i, all_rows, adapterLog, fileAtCall>>
  /\ UNCHANGED <<licVars, filterVars, uploadVars, genVars>>

\* Lines 41-43: the file was opened, and so created or truncated, and a
\* write raised after n lines: the exception leaves build_dataset.
BuildWriteInterrupted(n) ==
  /\ bpc = "write"
  /\ n < Len(all_rows)
  /\ outputFile' = FileOf(SubSeq(WrittenLines(all_rows), 1, n))
  /\ bpc' = "raised"
  /\ UNCHANGED <<languages, include_bigquery, lang_i, all_rows, adapterLog, fileAtCall>>
  /\ UNCHANGED <<licVars, filterVars, uploadVars, genVars>>

BuildNext ==
  \/ \E arg \in BuildLanguageArgs, include \in BOOLEAN : BuildDataset(arg, include)
  \/ \E ok \in BOOLEAN : BuildLoadStack(ok)
  \/ \E row \in BuildStackRows(gen.language) : BuildStackRow(row)
  \/ \E ok \in BOOLEAN : BuildLoadBigquery(ok)
  \/ \E row \in BuildBigqueryRows : BuildBigqueryRow(row)
  \/ BuildResume
  \/ BuildExhausted
  \/ BuildExtend
  \/ BuildLoopEnd
  \/ BuildPropagate
  \/ \E ok \in BOOLEAN : BuildWrite(ok)
  \/ \E n \in 0 .. MaxBuildRows : BuildWriteInterrupted(n)

\* The file at output_path is absent, or is left from an earlier build.
BuildInit ==
  /\ LicInit /\ FilterInit /\ HubAbsent /\ RunsInit /\ GenInit /\ BuildIdle
  /\ outputFile \in {NoFile, FileOf(<<[text |-> <<>>, end |-> "\n"]>>)}

SpecBuild == BuildInit /\ [][BuildNext]_vars

----------------------------------------------------------------------------
(* Properties of the Publisher, checked under SpecUpload.                  *)

\* The run r has returned normally.
Succeeded(r) == pc[r] = "done"

\* The run r has ended, by returning or by raising.
Ended(r) == pc[r] \in {"done", "raised"}

\* C1: when the load of the destination succeeds and returns P, a successful
\* upload_to_hf leaves the destination holding exactly P followed by the rows
\* of the input files.
C1_PublishAppendsToExisting ==
  \A r \in Runs :
    (Succeeded(r) /\ loadOutcome[r] = "rows") =>
      /\ existing_dataset[r].rows = hubAtStart[r]
      /\ hubRows = hubAtStart[r] \o ConcatFiles(args[r].file_paths)

C1_Witness ==
  /\ Succeeded(1)
  /\ loadOutcome[1] = "rows"
  /\ hubAtStart[1] = <<"p1", "p2">>
  /\ args[1].file_paths = <<P_a_jsonl>>
  /\ hubRows = <<"p1", "p2", "r1", "r2">>

\* C2: after every call of upload_to_hf, however it ends and however the load
\* of the existing corpus fails, the destination's rows start with the rows
\* it held before the call.
C2_AppendOnly ==
  \A r \in Runs : Ended(r) => IsPrefix(hubAtStart[r], hubRows)

\* C3: a not-found answer to the load makes the run go on with no existing
\* corpus; any other failure of the load is raised to the caller, push_to_hub
\* is not called and the destination keeps its rows.
C3_OnlyNotFoundIsSwallowed ==
  \A r \in Runs :
    /\ loadOutcome[r] = "HfHubHTTPError 404" =>
         (existing_dataset[r].isNone /\ raised[r] # "HfHubHTTPError 404")
    /\ loadOutcome[r] \in {"HfHubHTTPError 500", "ConnectionError"} =>
         /\ pc[r] = "raised"
         /\ raised[r] = loadOutcome[r]
         /\ \A i \in DOMAIN apiCalls[r] : apiCalls[r][i] # "push_to_hub"
         /\ hubRows = hubAtStart[r]

\* The preconditions of upload_to_hf that the arguments of run r break.
SomePathMissing(r) ==
  \E i \in DOMAIN args[r].file_paths : ~PathExists(args[r].file_paths[i])

SomePathNotJsonl(r) ==
  \E i \in DOMAIN args[r].file_paths : ~EndsWith(args[r].file_paths[i], DotJsonl)

TokenMissing(r) == args[r].token = None \/ args[r].token = <<>>

\* The run r is past its precondition checks.
Checked(r) == pc[r] \notin {"idle", "check"}

\* Nothing was called over the network or on the data, and nothing changed.
NoSideEffect(r) ==
  /\ pc[r] = "raised"
  /\ apiCalls[r] = <<>>
  /\ hubRows = hubAtStart[r]

\* C4 as stated: each broken precondition raises its own exception, whatever
\* else is broken, before any side effect.
C4_AsStated ==
  \A r \in Runs :
    Checked(r) =>
      /\ SomePathMissing(r) => (raised[r] = "FileNotFoundError" /\ NoSideEffect(r))
      /\ SomePathNotJsonl(r) => (raised[r] = "ValueError" /\ NoSideEffect(r))
      /\ TokenMissing(r) => (raised[r] = "ValueError" /\ NoSideEffect(r))

\* The first path, in the order given, that is missing or not a .jsonl path.
FirstBadPath(r) ==
  LET paths == args[r].file_paths
      bad(i) == ~PathExists(paths[i]) \/ ~EndsWith(paths[i], DotJsonl)
  IN  CHOOSE i \in DOMAIN paths : bad(i) /\ \A j \in 1..(i - 1) : ~bad(j)

\* C4 (amended): when a precondition is broken the call raises before any
\* side effect, and the exception is that of the first check to fail: the
\* paths in order, each for existence (FileNotFoundError) and then for its
\* extension (ValueError), and the token last (ValueError).
C4_PreconditionsBeforeSideEffects ==
  \A r \in Runs :
    Checked(r) =>
      IF SomePathMissing(r) \/ SomePathNotJsonl(r)
        THEN /\ NoSideEffect(r)
             /\ raised[r] = IF ~PathExists(args[r].file_paths[FirstBadPath(r)])
                              THEN "FileNotFoundError" ELSE "ValueError"
        ELSE IF TokenMissing(r)
          THEN NoSideEffect(r) /\ raised[r] = "ValueError"
          ELSE raised[r] \notin {"FileNotFoundError", "ValueError"}

C4_Witness ==
  /\ pc[1] = "raised"
  /\ args[1].file_paths = <<P_notes_txt, P_missing_jsonl>>
  /\ args[1].token = None
  /\ raised[1] = "ValueError"
  /\ apiCalls[1] = <<>>
  /\ hubRows = <<"p1", "p2">>

\* C5: when the load of the destination answers not-found, a successful
\* upload_to_hf leaves the destination holding exactly the rows of the input
\* files, file after file in the order of the paths, duplicates kept.
C5_PublishWithoutExisting ==
  \A r \in Runs :
    (Succeeded(r) /\ loadOutcome[r] = "HfHubHTTPError 404") =>
      hubRows = ConcatFiles(args[r].file_paths)

C5_Witness ==
  /\ Succeeded(1)
  /\ loadOutcome[1] = "HfHubHTTPError 404"
  /\ args[1].file_paths = <<P_a_jsonl, P_b_jsonl>>
  /\ hubRows = <<"r1", "r2", "r2">>

----------------------------------------------------------------------------
(* Properties of the Content Filter, checked under SpecFilter.             *)

\* C6: a text whose line count is below MIN_LINES or above MAX_LINES is
\* rejected whatever its token count, and a text of exactly MIN_LINES or
\* exactly MAX_LINES lines is not rejected on its line count: it is admitted
\* when its token count allows.
C6_LineBoundsClosed ==
  (fLast.called /\ fLast.content.kind = "str") =>
    LET lines == fLast.content.newlines + (IF fLast.content.tail THEN 1 ELSE 0)
    IN  /\ (lines < MIN_LINES \/ lines > MAX_LINES) => fLast.result.isNone
        /\ (lines \in {MIN_LINES, MAX_LINES} /\ fLast.content.tokens <= MAX_TOKENS) =>
             ~fLast.result.isNone

C6_Witness ==
  /\ fLast.called
  /\ fLast.content = Text(MAX_LINES, TRUE, 1)
  /\ fLast.result.isNone

\* C7: for a non-empty text with an admissible line count the result is a
\* rejection when its token count exceeds MAX_TOKENS and otherwise exactly its
\* token count; every count returned lies in 0..MAX_TOKENS.
C7_TokenBound ==
  fLast.called =>
    /\ ~fLast.result.isNone => fLast.result.value \in 0..MAX_TOKENS
    /\ LET lines == fLast.content.newlines + (IF fLast.content.tail THEN 1 ELSE 0)
       IN  (fLast.content.kind = "str" /\ lines >= MIN_LINES /\ lines <= MAX_LINES) =>
             IF fLast.content.tokens > MAX_TOKENS
               THEN fLast.result.isNone
               ELSE fLast.result = [isNone |-> FALSE, value |-> fLast.content.tokens]

C7_Witness ==
  /\ fLast.called
  /\ fLast.content = Text(MIN_LINES, FALSE, MAX_TOKENS)
  /\ fLast.result = [isNone |-> FALSE, value |-> MAX_TOKENS]

\* C26: the tokenizer is built at most once, by the first call of
\* passes_filters whose content is non-empty with an admissible line count,
\* and every later such call uses the one built; a call rejected for an
\* empty content or for its line count neither builds nor uses it.
C26_TokenizerBuiltOnce ==
  /\ tokBuilds <= 1
  /\ TOKENIZER = "None" <=> tokBuilds = 0
  /\ tokUses = 0 <=> tokBuilds = 0
  /\ fLast.called =>
       IF /\ Truthy(fLast.content)
          /\ SplitLinesLen(fLast.content) >= MIN_LINES
          /\ SplitLinesLen(fLast.content) <= MAX_LINES
         THEN /\ tokUses = fLast.usesBefore + 1
              /\ tokBuilds = 1
              /\ fLast.buildsBefore = 0 <=> fLast.tokenizerBefore = "None"
              /\ fLast.tokenizerBefore # "None" => TOKENIZER = fLast.tokenizerBefore
         ELSE /\ tokUses = fLast.usesBefore
              /\ tokBuilds = fLast.buildsBefore
              /\ TOKENIZER = fLast.tokenizerBefore

C26_Witness ==
  /\ fCalls = 3
  /\ tokUses = 2
  /\ tokBuilds = 1
  /\ fLast.buildsBefore = 1
  /\ fLast.usesBefore = 1
  /\ ~fLast.result.isNone

----------------------------------------------------------------------------
(* Further properties of the Publisher, checked under SpecUpload.          *)

\* C18: every successful publish grows the destination's row count by
\* exactly the number of rows of the input files, whether or not the rows are
\* there already: a run with batch B on a destination that holds P ++ B
\* leaves P ++ B ++ B.
C18_GrowsByBatch ==
  \A r \in Runs :
    Succeeded(r) =>
      LET B == ConcatFiles(args[r].file_paths)
      IN  /\ Len(hubRows) = Len(hubAtStart[r]) + Len(B)
          /\ (Len(hubAtStart[r]) >= Len(B) /\
               SubSeq(hubAtStart[r], Len(hubAtStart[r]) - Len(B) + 1, Len(hubAtStart[r])) = B)
                => hubRows = hubAtStart[r] \o B

\* The network and I/O calls of a run that goes through, in order.
StepOrder == <<"create_repo", "load_dataset(repo)", "load_dataset(json)", "push_to_hub">>

\* C19: the calls of one upload_to_hf are, in this order, create_repo, the
\* load of the destination, the load of the input files and push_to_hub, up
\* to the first that raises; push_to_hub is called at most once, last, and
\* only after the three others went through; the destination's rows differ
\* from those at the start of the call only when push_to_hub was called and
\* the call returned, so a call that raised left them as they were.
C19_StepOrderAndFrame ==
  \A r \in Runs :
    /\ IsPrefix(apiCalls[r], StepOrder)
    /\ pc[r] = "push" => apiCalls[r] = SubSeq(StepOrder, 1, 3)
    /\ Succeeded(r) => apiCalls[r] = StepOrder
    /\ pc[r] \in {"check", "create_repo", "load_existing", "load_files", "push", "raised"} =>
         hubRows = hubAtStart[r]
    /\ (pc[r] # "idle" /\ hubRows # hubAtStart[r]) =>
         Succeeded(r) /\ apiCalls[r][Len(apiCalls[r])] = "push_to_hub"

C19_Witness ==
  /\ pc[1] = "raised"
  /\ raised[1] = "DatasetGenerationError"
  /\ apiCalls[1] = SubSeq(StepOrder, 1, 3)
  /\ repoExists
  /\ hubAtStart[1] = <<"p1", "p2">>
  /\ hubRows = <<"p1", "p2">>
  /\ nUploads = 2

----------------------------------------------------------------------------
(* Properties of two concurrent publish runs, checked under SpecRace.      *)

\* Both runs returned normally, and both loaded the same rows from the
\* destination: neither load came after the other run's push.
RaceInterleaved ==
  /\ Succeeded(1) /\ Succeeded(2)
  /\ loadOutcome[1] = "rows" /\ loadOutcome[2] = "rows"
  /\ existing_dataset[1] = existing_dataset[2]

\* C17: upload_to_hf loads the destination and later replaces it, with no
\* lock or version check between the two: when two runs with batches B1 and
\* B2 both load P before either pushes and both return normally, the
\* destination ends as P ++ B1 or as P ++ B2, and the batch of the other run
\* is not in it.
C17_LostUpdate ==
  RaceInterleaved =>
    LET P == existing_dataset[1].rows
        B1 == ConcatFiles(args[1].file_paths)
        B2 == ConcatFiles(args[2].file_paths)
    IN  /\ hubRows \in {P \o B1, P \o B2}
        /\ Len(hubRows) < Len(P) + Len(B1) + Len(B2)
        /\ hubRows \notin {P \o B1 \o B2, P \o B2 \o B1}

C17_Witness ==
  /\ RaceInterleaved
  /\ existing_dataset[1].rows = <<"p1", "p2">>
  /\ args[1].file_paths = <<P_a_jsonl>>
  /\ args[2].file_paths = <<P_b_jsonl>>
  /\ apiCalls[1][Len(apiCalls[1])] = "push_to_hub"
  /\ apiCalls[2][Len(apiCalls[2])] = "push_to_hub"
  /\ hubRows = <<"p1", "p2", "r2">>

----------------------------------------------------------------------------
(* Properties of the Record Normalizers, checked under SpecIngest.         *)

\* C8: every record yielded by load_bigquery or load_stack has license_type
\* "permissive" or "no_license".
C8_LicenseTypeIsCategory ==
  \A i \in DOMAIN yielded : yielded[i].license_type \in {"permissive", "no_license"}

\* The row consumed last passed the drop checks that come before the filter:
\* in load_bigquery a valid extension and a content that decodes, in
\* load_stack a content that was fetched and an extension valid for the
\* language, when the language has a set.
LastSurvivesDropChecks ==
  IF gen.adapter = "bigquery"
    THEN /\ extract_extension(last.row.path) \in BQ_ALL_VALID_EXTENSIONS
         /\ last.row.content.valid
    ELSE /\ last.row.blob.fetched
         /\ \/ STACK_VALID_EXTENSIONS(Upper(gen.language)) = {}
            \/ NormalizedExtension(last.row.extension)
                 \in STACK_VALID_EXTENSIONS(Upper(gen.language))

\* The text of the row consumed last.
LastText == IF gen.adapter = "bigquery" THEN last.row.content.text ELSE last.row.blob.text

\* C9: passes_filters is called once for a row that survives the earlier drop
\* checks and not at all for another; the row yields a record only when that
\* call returned a count, and the record's num_tokens is the count returned.
C9_FilterOncePerSurvivor ==
  /\ last.consumed =>
       /\ fCalls = last.fCallsBefore + (IF LastSurvivesDropChecks THEN 1 ELSE 0)
       /\ LastSurvivesDropChecks =>
            /\ fLast.called /\ fLast.content = LastText
            /\ fLast.result.isNone => Len(yielded) = last.yieldedBefore
       /\ Len(yielded) # last.yieldedBefore =>
            /\ LastSurvivesDropChecks
            /\ Len(yielded) = last.yieldedBefore + 1
            /\ ~fLast.result.isNone
            /\ yielded[Len(yielded)].content = fLast.content
            /\ yielded[Len(yielded)].num_tokens = fLast.result.value
  /\ \A i \in DOMAIN yielded :
       passes_filters(yielded[i].content) = [isNone |-> FALSE, value |-> yielded[i].num_tokens]

C9_Witness ==
  /\ gen.adapter = "bigquery"
  /\ outcomes = <<"filter_rejection", "yield">>
  /\ fCalls = 2
  /\ Len(yielded) = 1
  /\ yielded[1].content = T_admitted
  /\ yielded[1].num_tokens = 40

\* The row consumed last by load_bigquery decodes to a text the Content
\* Filter admits.
LastAdmissible ==
  /\ last.row.content.valid
  /\ ~passes_filters(last.row.content.text).isNone

\* The row consumed last was turned into the record yielded last.
LastYielded ==
  /\ outcomes[Len(outcomes)] = "yield"
  /\ Len(yielded) = last.yieldedBefore + 1
  /\ yielded[Len(yielded)].file_path = last.row.path

\* C12: load_bigquery takes the extension to be the lower-cased text after
\* the last dot of the path: a row with path a/b/file.jcl and admissible
\* content yields a record with extension jcl and language JCL, one with path
\* v1.2/X.PLI a record with extension pli and language PL/I; a row whose path
\* has no dot is dropped and counted in skipped_extensions and not in skipped,
\* whatever its content, and passes_filters is not called for it.
C12_ExtensionAfterLastDot ==
  (gen.adapter = "bigquery" /\ last.consumed) =>
    /\ (last.row.path = BP_file_jcl /\ LastAdmissible) =>
         /\ LastYielded
         /\ yielded[Len(yielded)].extension = <<"j","c","l">>
         /\ yielded[Len(yielded)].language = "JCL"
    /\ (last.row.path = BP_X_PLI /\ LastAdmissible) =>
         /\ LastYielded
         /\ yielded[Len(yielded)].extension = <<"p","l","i">>
         /\ yielded[Len(yielded)].language = "PL/I"
    /\ (\A i \in DOMAIN last.row.path : last.row.path[i] # ".") =>
         /\ outcomes[Len(outcomes)] = "invalid_extension"
         /\ Len(yielded) = last.yieldedBefore
         /\ skipped_extensions = last.skippedExtensionsBefore + 1
         /\ skipped = last.skippedBefore
         /\ fCalls = last.fCallsBefore

C12_Witness ==
  /\ gen.adapter = "bigquery"
  /\ outcomes = <<"yield", "invalid_extension">>
  /\ Len(yielded) = 1
  /\ yielded[1].file_path = BP_file_jcl
  /\ yielded[1].extension = <<"j","c","l">>
  /\ yielded[1].language = "JCL"
  /\ last.row.path = BP_Makefile
  /\ last.row.content = Base64Invalid
  /\ skipped_extensions = 1
  /\ skipped = 0
  /\ fCalls = 1

\* The row consumed last by load_bigquery has a valid extension and a
\* content the Content Filter admits.
LastAdmissibleBigquery ==
  /\ gen.adapter = "bigquery"
  /\ last.consumed
  /\ last.row.path \in {BP_file_jcl, BP_X_PLI}
  /\ LastAdmissible

RegisteredExtensions(record) ==
  IF record.source = "bigquery" THEN BQ_VALID_EXTENSIONS(record.language)
  ELSE IF record.language = "COBOL" THEN STACK_VALID_EXTENSIONS(LANG_COBOL)
  ELSE IF record.language = "REXX" THEN STACK_VALID_EXTENSIONS(LANG_REXX)
  ELSE IF record.language = "RPGLE" THEN STACK_VALID_EXTENSIONS(LANG_RPGLE)
  ELSE {}

\* C15: the extension of every record yielded by load_bigquery or load_stack
\* is a member of the valid-extension set registered for the record's
\* language.
C15_ExtensionRegisteredForLanguage ==
  \A i \in DOMAIN yielded : yielded[i].extension \in RegisteredExtensions(yielded[i])

\* C16: the extension of every record yielded by load_bigquery or load_stack
\* is lower-cased and has no leading dot.
C16_ExtensionNormalized ==
  \A i \in DOMAIN yielded :
    /\ yielded[i].extension = Lower(yielded[i].extension)
    /\ ~StartsWith(yielded[i].extension, <<".">>)

\* C22: the language load_bigquery infers for a row is the language whose
\* registered set contains the row's extension, and UNKNOWN when no
\* language's set contains it.
C22_InferredLanguageIsRegistered ==
  (gen.adapter = "bigquery" /\ last.consumed) =>
    LET extension == extract_extension(last.row.path)
    IN  IF \E i \in DOMAIN BQ_LANGUAGES : extension \in BQ_VALID_EXTENSIONS(BQ_LANGUAGES[i])
          THEN extension \in BQ_VALID_EXTENSIONS(last.language)
          ELSE last.language = "UNKNOWN"

\* How many of the rows consumed so far ended in the given way.
OutcomeCount(outcome) == Cardinality({i \in DOMAIN outcomes : outcomes[i] = outcome})

\* C23: a row of load_bigquery whose content does not decode is skipped: it
\* yields no record and passes_filters is not called for it; the run does
\* not raise, rows after it are consumed as usual, and the records yielded
\* are one per admitted row, each appended when its row is consumed.
C23_DecodeFailureIsARowSkip ==
  gen.adapter = "bigquery" =>
    /\ outcomes # <<>> => gpc \in {"loop", "yielded", "finished"}
    /\ Len(yielded) = OutcomeCount("yield")
    /\ last.consumed =>
         /\ (extract_extension(last.row.path) \in BQ_ALL_VALID_EXTENSIONS
               /\ ~last.row.content.valid) =>
              /\ outcomes[Len(outcomes)] = "decode_failure"
              /\ Len(yielded) = last.yieldedBefore
              /\ fCalls = last.fCallsBefore
              /\ skipped = last.skippedBefore + 1
              /\ gpc \in {"loop", "finished"}
         /\ outcomes[Len(outcomes)] = "yield" =>
              /\ Len(yielded) = last.yieldedBefore + 1
              /\ yielded[Len(yielded)].file_path = last.row.path
              /\ yielded[Len(yielded)].content = last.row.content.text

C23_Witness ==
  /\ gen.adapter = "bigquery"
  /\ outcomes = <<"decode_failure", "yield">>
  /\ Len(yielded) = 1
  /\ fCalls = 1
  /\ skipped = 1
  /\ yielded[1].file_path = last.row.path

\* C24: a row of load_stack whose blob cannot be fetched has no content and
\* is dropped before the extension test and before the Content Filter: it
\* yields no record, is not counted as an invalid extension, and
\* passes_filters is not called for it, nor ever with an absent content; the
\* run does not raise and rows after it are consumed as usual.
C24_AbsentContentDroppedFirst ==
  gen.adapter = "stack" =>
    /\ outcomes # <<>> => gpc \in {"loop", "yielded", "finished"}
    /\ fLast.called => fLast.content.kind # "none"
    /\ (last.consumed /\ ~last.row.blob.fetched) =>
         /\ outcomes[Len(outcomes)] = "no_content"
         /\ Len(yielded) = last.yieldedBefore
         /\ fCalls = last.fCallsBefore
         /\ skipped_extensions = last.skippedExtensionsBefore

C24_Witness ==
  /\ gen = [adapter |-> "stack", language |-> LANG_COBOL]
  /\ outcomes = <<"no_content", "yield">>
  /\ Len(yielded) = 1
  /\ fCalls = 1
  /\ skipped_extensions = 0
  /\ last.row.blob.fetched

\* C25: load_bigquery counts each drop reason on its own: skipped_extensions
\* counts the rows dropped for an invalid extension and nothing else, and
\* skipped counts the rows of one reason only, the decode failures or the
\* rejections by the Content Filter, never the two together.
C25_DropReasonsCountedApart ==
  gen.adapter = "bigquery" =>
    /\ skipped_extensions = OutcomeCount("invalid_extension")
    /\ \/ skipped = OutcomeCount("filter_rejection")
       \/ skipped = OutcomeCount("decode_failure")

\* C27: load_stack never runs the License Classifier, and the record it
\* yields carries the license_type of its source row, whatever that value is.
C27_LicenseTypePassedThrough ==
  gen.adapter = "stack" =>
    /\ licLog = <<>>
    /\ (last.consumed /\ outcomes[Len(outcomes)] = "yield") =>
         /\ Len(yielded) = last.yieldedBefore + 1
         /\ yielded[Len(yielded)].license_type = last.row.license_type

C27_Witness ==
  /\ gen.adapter = "stack"
  /\ last.consumed
  /\ outcomes[Len(outcomes)] = "yield"
  /\ last.row.license_type = "MIT"
  /\ yielded[Len(yielded)].license_type = "MIT"
  /\ yielded[Len(yielded)].licenses = <<L_MIT>>

\* C29: once load_bigquery is drained, every row it consumed is counted
\* exactly once: count + skipped + skipped_extensions is the number of rows
\* consumed and count is the number of records yielded, skipped being the
\* decode failures and filter rejections and skipped_extensions the invalid
\* extensions. While the loop runs, only a record yielded and not yet
\* counted is missing from the sum.
C29_EveryRowAccounted ==
  gen.adapter = "bigquery" =>
    /\ gpc = "finished" =>
         /\ count + skipped + skipped_extensions = Len(outcomes)
         /\ count = Len(yielded)
         /\ count = OutcomeCount("yield")
         /\ skipped = OutcomeCount("decode_failure") + OutcomeCount("filter_rejection")
         /\ skipped_extensions = OutcomeCount("invalid_extension")
    /\ gpc = "loop" => count + skipped + skipped_extensions = Len(outcomes)
    /\ gpc = "yielded" =>
         /\ count + skipped + skipped_extensions = Len(outcomes) - 1
         /\ count = Len(yielded) - 1

C29_Witness ==
  /\ gen.adapter = "bigquery"
  /\ gpc = "finished"
  /\ outcomes = <<"decode_failure", "yield">>
  /\ count = 1
  /\ skipped = 1
  /\ skipped_extensions = 0

----------------------------------------------------------------------------
(* Properties of the Aggregator, checked under SpecBuild.                  *)

\* The records the adapter runs of a log yielded, run after run.
RECURSIVE AllYielded(_)
AllYielded(log) ==
  IF log = <<>> THEN <<>> ELSE log[1].yielded \o AllYielded(Tail(log))

\* The adapter calls build_dataset is to make, in order.
AdaptersDue ==
  [i \in DOMAIN languages |-> [adapter |-> "stack", language |-> languages[i]]]
    \o (IF include_bigquery THEN <<[adapter |-> "bigquery", language |-> <<>>]>> ELSE <<>>)

\* The object a line of the file reads back as.
LineRecord(line) ==
  [k \in {RecordKeys[i] : i \in DOMAIN RecordKeys} |->
     line.text[CHOOSE i \in DOMAIN line.text : line.text[i][1] = k][2]]

\* C11: when build_dataset returns, the file exists and holds one line per
\* record yielded, and no other line: the records of load_stack for each
\* language in the order of languages, each in yield order, then those of
\* load_bigquery exactly when include_bigquery is set; load_bigquery is never
\* run otherwise; with no record at all the file exists and is empty.
C11_OneLinePerAdmittedRecord ==
  /\ (bpc # "idle" /\ ~include_bigquery) =>
       /\ gen.adapter # "bigquery"
       /\ \A i \in DOMAIN adapterLog : adapterLog[i].adapter # "bigquery"
  /\ bpc = "done" =>
       /\ outputFile.exists
       /\ [i \in DOMAIN adapterLog |->
             [adapter |-> adapterLog[i].adapter, language |-> adapterLog[i].language]]
            = AdaptersDue
       /\ Len(outputFile.lines) = Len(AllYielded(adapterLog))
       /\ \A i \in DOMAIN outputFile.lines :
            /\ Len(outputFile.lines[i].text) = Len(RecordKeys)
            /\ LineRecord(outputFile.lines[i]) = AllYielded(adapterLog)[i]
            /\ outputFile.lines[i].end = "\n"

C11_Witness ==
  /\ bpc = "done"
  /\ languages = <<LANG_REXX, LANG_COBOL>>
  /\ include_bigquery
  /\ Len(adapterLog) = 3
  /\ Len(adapterLog[1].yielded) = 1
  /\ Len(adapterLog[2].yielded) = 1
  /\ Len(adapterLog[3].yielded) = 1
  /\ Len(outputFile.lines) = 3
  /\ LineRecord(outputFile.lines[1]).language = "REXX"
  /\ LineRecord(outputFile.lines[2]).language = "COBOL"
  /\ LineRecord(outputFile.lines[3]).source = "bigquery"

\* build_dataset returned without any record: the file is there, and empty.
C11_EmptyBuild ==
  /\ bpc = "done"
  /\ AllYielded(adapterLog) = <<>>
  /\ outputFile = FileOf(<<>>)

\* The fields of a Unified Record.
RecordFields == {RecordKeys[i] : i \in DOMAIN RecordKeys}

\* A record has the 13 fields and the source and provenance of its adapter.
WellFormedRecord(record) ==
  /\ DOMAIN record = RecordFields
  /\ record.source \in {"bigquery", "stack"}
  /\ record.source = "bigquery" =>
       record.revision_id = "" /\ record.commit_date = "" /\ record.branch = ""

\* C14: every record yielded by load_bigquery or load_stack, and so every
\* record build_dataset collects, has exactly the 13 fields of the Unified
\* Record; a record of load_bigquery has source bigquery and an empty
\* revision_id, commit_date and branch, one of load_stack has source stack.
C14_SchemaConsistency ==
  /\ Cardinality(RecordFields) = 13
  /\ \A i \in DOMAIN yielded :
       /\ WellFormedRecord(yielded[i])
       /\ yielded[i].source = gen.adapter
  /\ \A i \in DOMAIN all_rows : WellFormedRecord(all_rows[i])
  /\ \A i \in DOMAIN adapterLog : \A j \in DOMAIN adapterLog[i].yielded :
       adapterLog[i].yielded[j].source = adapterLog[i].adapter

C14_Witness ==
  /\ Len(all_rows) = 2
  /\ all_rows[1].source = "stack"
  /\ all_rows[2].source = "bigquery"
  /\ DOMAIN all_rows[1] = DOMAIN all_rows[2]
  /\ all_rows[1].revision_id = "rev1"
  /\ all_rows[2].revision_id = ""

\* Every selected adapter has been driven to its end, in order.
AdaptersDrained ==
  /\ gpc = "idle"
  /\ [i \in DOMAIN adapterLog |->
        [adapter |-> adapterLog[i].adapter, language |-> adapterLog[i].language]]
       = AdaptersDue

\* C28: build_dataset comes to open the target file only once every selected
\* adapter is drained, and until then the file is as it was at the call; when
\* an adapter raises, build_dataset ends with the file neither created nor
\* truncated nor written, whatever rows it had collected.
C28_FileOpenedAfterDrain ==
  /\ bpc \in {"write", "done"} => AdaptersDrained
  /\ bpc \in {"stack", "bigquery", "write"} => outputFile = fileAtCall
  /\ (bpc = "raised" /\ gpc = "raised") => outputFile = fileAtCall
  /\ (bpc # "idle" /\ outputFile # fileAtCall) =>
       /\ bpc \in {"done", "raised"}
       /\ AdaptersDrained
       /\ outputFile.exists

C28_Witness ==
  /\ bpc = "raised"
  /\ gpc = "raised"
  /\ gen.adapter = "bigquery"
  /\ Len(all_rows) = 2
  /\ fileAtCall = FileOf(<<[text |-> <<>>, end |-> "\n"]>>)
  /\ outputFile = fileAtCall

\* C30: when passes_filters returns 0 for the content of a row, the
\* normalizer consuming the row, load_stack or load_bigquery, yields its
\* record, with that content and num_tokens 0: a count of zero is not taken
\* for a rejection.
C30_ZeroTokensAdmitted ==
  ( /\ gen.adapter \in {"stack", "bigquery"}
    /\ last.consumed
    /\ fCalls = last.fCallsBefore + 1
    /\ fLast.result = [isNone |-> FALSE, value |-> 0] ) =>
      /\ Truthy(fLast.content)
      /\ outcomes[Len(outcomes)] = "yield"
      /\ Len(yielded) = last.yieldedBefore + 1
      /\ yielded[Len(yielded)].num_tokens = 0
      /\ yielded[Len(yielded)].content = fLast.content
      /\ yielded[Len(yielded)].source = gen.adapter

C30_Witness ==
  /\ Len(all_rows) = 2
  /\ all_rows[1].source = "stack"
  /\ all_rows[1].num_tokens = 0
  /\ all_rows[1].content = T_no_token
  /\ all_rows[2].source = "bigquery"
  /\ all_rows[2].num_tokens = 0
  /\ all_rows[2].content = T_no_token
  /\ bpc = "done"
  /\ Len(outputFile.lines) = 2

----------------------------------------------------------------------------
(* Properties of the License Classifier, checked under SpecLicense.        *)

\* C10: every call returns "permissive" or "no_license", two calls on the same
\* input return the same category, a missing or empty input gives
\* "no_license", "MIT" and "Apache-2.0" give "permissive" and "Proprietary"
\* gives "no_license".
C10_ClassifierTotal ==
  \A i \in DOMAIN licLog :
    /\ licLog[i].result \in {"permissive", "no_license"}
    /\ \A j \in DOMAIN licLog :
         licLog[j].input = licLog[i].input => licLog[j].result = licLog[i].result
    /\ licLog[i].input \in {None, <<>>} => licLog[i].result = "no_license"
    /\ licLog[i].input \in {L_MIT, L_Apache20} => licLog[i].result = "permissive"
    /\ licLog[i].input = L_Proprietary => licLog[i].result = "no_license"

\* None of the exact rules matches an identifier: the SPDX set as written,
\* the common-name set and the SPDX set in lower case.
NoExactRule(license_name) ==
  /\ license_name \notin {None, <<>>}
  /\ Strip(license_name) \notin PERMISSIVE_LICENSE_SPDX_IDS
  /\ Lower(Strip(license_name)) \notin PERMISSIVE_LICENSE_NAMES
  /\ Lower(Strip(license_name)) \notin PERMISSIVE_LICENSE_SPDX_IDS_LOWER

InPermissiveList(license_name) == license_name \notin {None, <<>>} /\ ~NoExactRule(license_name)

C10_Witness ==
  /\ Len(licLog) = 3
  /\ licLog[1] = [input |-> None, result |-> "no_license"]
  /\ licLog[2] = [input |-> L_Apache20, result |-> "permissive"]
  /\ licLog[3] = [input |-> L_Proprietary, result |-> "no_license"]

====
